---- MODULE Spec2Model ----
(***************************************************************************)
(* Navigation core of the V5 competition robot: the blocking motion        *)
(* commands (turn_to_heading, drive_to_pose), the shared Pose with its     *)
(* mutex, the odometry task, set_pose / set_pose_no_reset and the vision   *)
(* correction.                                                             *)
(*                                                                         *)
(* Units.  Time is in milliseconds, as returned by get_time_ms().          *)
(* Heading errors of the motion commands are in milliradians and their     *)
(* distances in millimetres.  In the pose model distances are in           *)
(* centimetres and angles in quarter turns; the IMU only ever moves by     *)
(* half turns, so that the midpoint heading theta + dtheta/2 is a whole    *)
(* number of quarter turns and cos / sin are exact.                        *)
(***************************************************************************)
EXTENDS Integers, FiniteSets, Sequences, TLC

VARIABLES
    \* ---- motion command (turn_to_heading / drive_to_pose) ----
    now,            \* vex::timer::system(), ms
    cmd,            \* "none", "turn" or "drive": the command being executed
    mpc,            \* position of the command: "idle","loop","wait","stop","done"
    start_time,     \* local start_time
    settle_start,   \* local settle_start
    settling,       \* local settling
    lastDriveCmd,   \* last call made to the drive HAL: "none", "set", "stop"
    exitReason,     \* history: "none", "timeout", "settled" (which break left the loop)
    exitSample,     \* history: the error sampled on the tick that left the loop
    tolSince,       \* history: time of the first tick of the current unbroken
                    \* run of in-tolerance samples, -1 when the last sample was outside
    exitHeading,    \* history: the heading error on the tick that left the loop
    issued          \* history: the set_drive_motors calls of the current loop
                    \* iteration, each as the error sample it was computed from

motionVars == <<now, cmd, mpc, start_time, settle_start, settling,
                lastDriveCmd, exitReason, exitSample, tolSince, exitHeading, issued>>

VARIABLES
    \* ---- the calling sequence (autonomous) and the task scheduler ----
    commands,        \* number of motion commands autonomous() has called so far
    active,          \* history: commands entered and not yet returned
    itersSinceYield, \* history: loop bodies run since the command last slept
    bgRan            \* history: background tasks that ran during the current wait_ms

autonVars == <<commands, active, itersSinceYield, bgRan>>

VARIABLES
    \* ---- shared pose, sensors and the tasks that touch them ----
    pose_mutex,         \* owner of pose_mutex: "free" or the process holding it
    current_pose,       \* [x, y, theta]
    poseStamp,          \* history: [xy, th], which whole write last wrote each part
    nextStamp,          \* history: stamp of the next whole write
    prev_forward_dist,  \* sensor baselines of odometry_update
    prev_lateral_dist,
    prev_imu_rotation,
    fwdSensor,          \* tracking_get_forward_distance_m()
    latSensor,          \* tracking_get_lateral_distance_m()
    imuSensor,          \* get_imu_rotation_rad()
    pc,                 \* position of each process
    odo,                \* locals of odometry_update
    lastRead,           \* history: the sensor values read by the latest tick
    prevRead,           \* history: the sensor values read by the tick before it
    copy,               \* local copy of get_pose, per calling process
    estimate,           \* argument of vision_correct_odometry
    corrected,          \* local corrected of vision_correct_odometry
    new_pose,           \* argument of set_pose
    moves,              \* number of sensor movements so far
    setPoseCalls,       \* number of set_pose calls so far
    visionCalls,        \* number of vision_correct_odometry calls so far
    movedSinceReset     \* history: a sensor moved since set_pose was last called

baselineVars == <<prev_forward_dist, prev_lateral_dist, prev_imu_rotation>>
sensorVars   == <<fwdSensor, latSensor, imuSensor>>

poseVars == <<pose_mutex, current_pose, poseStamp, nextStamp, baselineVars,
              sensorVars, pc, odo, lastRead, prevRead, copy, estimate, corrected, new_pose,
              moves, setPoseCalls, visionCalls, movedSinceReset>>

VARIABLES
    \* ---- one PIDController and the clock it reads ----
    pidNow,     \* get_time_sec(), in hundredths of a second
    pid,        \* the controller's members
    pidCalls,   \* number of calculate() calls so far
    pidElapsed, \* history: now - _last_time seen by the latest calculate()
    pidDt,      \* history: dt used by the latest calculate()
    pidRaw,     \* history: p_out + i_out + d_out of the latest calculate()
    pidOut,     \* history: value returned by the latest calculate()
    pidFresh,   \* history: reset() was called and calculate() has not run since
    pidDeriv    \* history: _filtered_deriv as the latest calculate() found it
                \* and the raw_deriv it computed

pidVars == <<pidNow, pid, pidCalls, pidElapsed, pidDt, pidRaw, pidOut, pidFresh, pidDeriv>>

VARIABLES
    \* ---- vision_localizer_update: one camera frame being processed ----
    locPc,          \* "idle", "loop" (line 160) or "ret" (line 212)
    frame,          \* tag_buffer after vision_snapshot(): the detections
    tagIndex,       \* loop variable i, counted from 1
    locTheta,       \* current.theta of the get_pose() of line 157
    best_estimate,  \* local best_estimate
    last_tag_count  \* static last_tag_count

locVars == <<locPc, frame, tagIndex, locTheta, best_estimate, last_tag_count>>

VARIABLES
    \* ---- drive_to_pose's linear speed and the drive HAL ----
    drvPc,       \* "idle" or "run" (inside the loop of drive_to_pose)
    reverse,     \* argument reverse
    prev_cmd_v,  \* local prev_cmd_v
    cmdBefore,   \* history: prev_cmd_v before the latest tick
    rawTarget,   \* history: raw_v of the latest tick before slew limiting
    headingRaw,  \* history: target_heading - cur.theta of the latest tick
    headingErr,  \* history: heading_error of the latest tick
    drvTicks,    \* number of ticks of this invocation
    motorArgs,   \* history: arguments of the latest set_drive_motors call
    motorVolts   \* voltages last handed to the motors (0 after a stop)

drvVars == <<drvPc, reverse, prev_cmd_v, cmdBefore, rawTarget, headingRaw, headingErr, drvTicks,
             motorArgs, motorVolts>>

VARIABLES
    \* ---- one MotionProfile ----
    profile,    \* members _max_velocity, _max_acceleration
    profArgs,   \* history: arguments of the latest get_target_velocity call
    profOut,    \* history: the velocity it returned
    profCalls   \* history: 1 once get_target_velocity has been called

profVars == <<profile, profArgs, profOut, profCalls>>

VARIABLES
    \* ---- the PID controllers of the motion commands ----
    cpCmd,        \* "none", "turn" or "drive": the command being executed
    cpPc,         \* "idle" or "loop"
    turn_pid,     \* static turn_pid of turn_to_heading.cpp
    angular_pid,  \* local angular_pid of drive_to_pose
    cpNow,        \* get_time_sec(), in hundredths of a second
    cmdCalcs,     \* calculate() calls of this invocation so far
    firstCalc,    \* history: the controller as the first calculate() of this
                  \* invocation found it
    invocations   \* number of commands that have returned

cmdPidVars == <<cpCmd, cpPc, turn_pid, angular_pid, cpNow, cmdCalcs, firstCalc,
                invocations>>

VARIABLES
    \* ---- the odometry background task (odometry.cpp lines 140-164) ----
    odom_task_ptr,  \* static odom_task_ptr: 0 (nullptr) or the task it points to
    tasks,          \* every vex::task made by odometry_start_task: "none" (not
                    \* made yet), "update" / "sleep" (running, in
                    \* odometry_update or in its sleep), "stopped"
    taskCalls,      \* number of start / stop calls so far
    lastCall        \* history: the latest call and what it found

taskVars == <<odom_task_ptr, tasks, taskCalls, lastCall>>

VARIABLES
    \* ---- calibrate_imu (hal/imu.cpp lines 30-46) ----
    calPc,           \* "idle", "test" (loop condition), "sleep", "report", "done"
    calElapsed,      \* local elapsed, ms
    imuCalibrating,  \* what DrivetrainInertial.isCalibrating() returns now
    sawCalibrating,  \* history: what it returned to the latest loop test
    calLog           \* history: "none", "finished" or "timeout" (the line logged)

calVars == <<calPc, calElapsed, imuCalibrating, sawCalibrating, calLog>>

hwVars == <<taskVars, calVars>>

extVars == <<locVars, drvVars, profVars, cmdPidVars, hwVars>>

vars == <<motionVars, autonVars, poseVars, pidVars, extVars>>

Abs(n) == IF n < 0 THEN -n ELSE n

(***************************************************************************)
(* Configuration (6-motor competition configuration of config.h)           *)
(***************************************************************************)
LOOP_INTERVAL_MS     == 10
TURN_TIMEOUT_MS      == 1500
TURN_SETTLE_TIME_MS  == 150
TURN_SETTLE_MRAD     == 25
DRIVE_TIMEOUT_MS     == 4000
DRIVE_SETTLE_TIME_MS == 150
DRIVE_SETTLE_MM      == 15

\* wait_ms(LOOP_INTERVAL_MS) returns after LOOP_INTERVAL_MS plus up to
\* MaxLateTicks further loop intervals (other tasks were running).
MaxLateTicks == 1

WaitDurations == { LOOP_INTERVAL_MS + k * LOOP_INTERVAL_MS : k \in 0..MaxLateTicks }

\* Normalised heading errors get_pose may lead to (mrad) and distances (mm).
TurnErrSamples == { 0, TURN_SETTLE_MRAD - 1, -(TURN_SETTLE_MRAD - 1),
                    TURN_SETTLE_MRAD, -TURN_SETTLE_MRAD, 3000 }
DistSamples    == { 0, DRIVE_SETTLE_MM - 1, DRIVE_SETTLE_MM, 500 }
\* Heading errors of drive_to_pose (mrad): towards the carrot, and nearly
\* facing away from it.
DriveHeadingSamples == { 0, 3000 }

Samples(c) == IF c = "turn" THEN TurnErrSamples ELSE DistSamples

\* The heading errors that can go with the sampled error e: in
\* turn_to_heading e is the heading error.
HeadingSamples(c, e) == IF c = "turn" THEN {e} ELSE DriveHeadingSamples

(***************************************************************************)
(* Motion commands                                                         *)
(***************************************************************************)
\* if (elapsed > TURN_TIMEOUT_MS) break;
TimedOutUnlessSettling(elapsed, timeout) == ~settling /\ elapsed > timeout

TimedOut(elapsed, timeout) == elapsed > timeout

\* std::abs(error) < TURN_SETTLE_RAD   /   dist < DRIVE_SETTLE_M
InsideTolerance(c, e) ==
    IF c = "turn" THEN Abs(e) < TURN_SETTLE_MRAD ELSE e < DRIVE_SETTLE_MM

Timeout(c)    == IF c = "turn" THEN TURN_TIMEOUT_MS ELSE DRIVE_TIMEOUT_MS
SettleTime(c) == IF c = "turn" THEN TURN_SETTLE_TIME_MS ELSE DRIVE_SETTLE_TIME_MS

\* The settle detection of one tick: the new (settling, settle_start) and
\* whether the loop is left by the settled break.
SettleCheckKeepsDwell(inTol, t, dwell) ==
    IF inTol
    THEN IF ~settling
         THEN [settling |-> TRUE, settle_start |-> t, exit |-> FALSE]
         ELSE [settling |-> TRUE, settle_start |-> settle_start,
               exit |-> (t - settle_start >= dwell)]
    ELSE [settling |-> settling, settle_start |-> settle_start, exit |-> FALSE]

SettleCheck(inTol, t, dwell) ==
    IF inTol
    THEN IF ~settling
         THEN [settling |-> TRUE, settle_start |-> t, exit |-> FALSE]
         ELSE [settling |-> TRUE, settle_start |-> settle_start,
               exit |-> (t - settle_start >= dwell)]
    ELSE [settling |-> FALSE, settle_start |-> settle_start, exit |-> FALSE]

\* The claim's own notion of "within tolerance", used by the history variables.
WithinTolerance(c, e) ==
    (c = "turn"  => -TURN_SETTLE_MRAD < e /\ e < TURN_SETTLE_MRAD) /\
    (c = "drive" => 0 <= e /\ e < DRIVE_SETTLE_MM)

\* History of the samples: start of the unbroken in-tolerance run.
TolRun(c, e) ==
    IF WithinTolerance(c, e)
    THEN (IF tolSince = -1 THEN now ELSE tolSince)
    ELSE -1

\* Entry into a command: PID set-up, locals initialised, start_time stamped.
\* autonomous() is at a call site: no motion command is executing.
CanStartAnytime == mpc # "done"

CanStart == mpc = "idle"

MaxCommands == 2

StartCommand(c) ==
    /\ CanStart
    /\ commands < MaxCommands
    /\ commands' = commands + 1
    /\ active' = active + 1
    /\ itersSinceYield' = 0
    /\ bgRan' = {}
    /\ cmd' = c
    /\ mpc' = "loop"
    /\ start_time' = now
    /\ settle_start' = 0
    /\ settling' = FALSE
    /\ tolSince' = -1
    /\ issued' = <<>>
    /\ UNCHANGED <<now, lastDriveCmd, exitReason, exitSample, exitHeading>>
    /\ UNCHANGED <<poseVars, pidVars, extVars>>

StartTurn  == StartCommand("turn")
StartDrive == StartCommand("drive")

\* Where an iteration that took no break ends: in wait_ms(LOOP_INTERVAL_MS).
AfterCommandedLoop == "loop"

AfterCommanded == "wait"

\* Where the settled break leads: out of the loop, to stop_drive_motors().
AfterSettledReturn == "done"

AfterSettled == "stop"

\* The settled break (turn lines 69-70, drive lines 336-337): taken on the
\* settle detection alone.
ExitsSettledFacingTarget(s, h) == s.exit /\ (cmd = "drive" => h = 0)

ExitsSettled(s, h) == s.exit

\* set_drive_motors at the end of the body (turn line 86, drive line 388):
\* called on every pass that took no break, with values computed from this
\* pass's get_pose.
IssuedOutsideToleranceOnly(sample, inTol) == IF inTol THEN <<>> ELSE <<sample>>

Issued(sample, inTol) == <<sample>>

\* One pass through the loop body up to (not including) wait_ms: the timeout
\* check, get_pose and the error e it leads to, the settle detection and,
\* unless a break was taken, set_drive_motors.
Iterate(e) ==
    /\ mpc = "loop"
    /\ e \in Samples(cmd)
    /\ IF TimedOut(now - start_time, Timeout(cmd))
       THEN /\ mpc' = "stop"
            /\ exitReason' = "timeout"
            /\ issued' = <<>>
            /\ UNCHANGED <<settling, settle_start, lastDriveCmd, exitSample, tolSince,
                           exitHeading, itersSinceYield>>
       ELSE \E h \in HeadingSamples(cmd, e) :
            LET inTol == InsideTolerance(cmd, e)
                s == SettleCheck(inTol, now, SettleTime(cmd)) IN
            /\ settling' = s.settling
            /\ settle_start' = s.settle_start
            /\ tolSince' = TolRun(cmd, e)
            /\ IF ExitsSettled(s, h)
               THEN /\ mpc' = AfterSettled
                    /\ exitReason' = "settled"
                    /\ exitSample' = e
                    /\ exitHeading' = h
                    /\ issued' = <<>>
                    /\ UNCHANGED <<lastDriveCmd, itersSinceYield>>
               ELSE /\ mpc' = AfterCommanded
                    /\ issued' = Issued(e, inTol)
                    /\ lastDriveCmd' = IF issued' # <<>> THEN "set" ELSE lastDriveCmd
                    /\ itersSinceYield' = itersSinceYield + 1
                    /\ UNCHANGED <<exitReason, exitSample, exitHeading>>
    /\ UNCHANGED <<now, cmd, start_time, commands, active, bgRan>>
    /\ UNCHANGED <<poseVars, pidVars, extVars>>

\* wait_ms(LOOP_INTERVAL_MS): the clock advances while the command sleeps.
Wait ==
    /\ mpc = "wait"
    /\ \E d \in WaitDurations : now' = now + d
    /\ mpc' = "loop"
    /\ itersSinceYield' = 0
    /\ bgRan' = {}
    /\ issued' = <<>>
    /\ UNCHANGED <<cmd, start_time, settle_start, settling, lastDriveCmd,
                   exitReason, exitSample, tolSince, exitHeading, commands, active>>
    /\ UNCHANGED <<poseVars, pidVars, extVars>>

\* stop_drive_motors() after the loop, then return.
StopDriveMotors ==
    /\ mpc = "stop"
    /\ lastDriveCmd' = "stop"
    /\ mpc' = "done"
    /\ active' = active - 1
    /\ UNCHANGED <<now, cmd, start_time, settle_start, settling,
                   exitReason, exitSample, tolSince, exitHeading, issued, commands,
                   itersSinceYield, bgRan>>
    /\ UNCHANGED <<poseVars, pidVars, extVars>>

\* The command has returned into autonomous(), which goes on to its next
\* call.  The command's locals are gone; the commands only ever use
\* differences of get_time_ms(), so the clock is counted from here again.
NextCommand ==
    /\ mpc = "done"
    /\ commands < MaxCommands
    /\ mpc' = "idle"
    /\ now' = 0
    /\ cmd' = "none"
    /\ start_time' = 0
    /\ settle_start' = 0
    /\ settling' = FALSE
    /\ exitReason' = "none"
    /\ exitSample' = 0
    /\ exitHeading' = 0
    /\ tolSince' = -1
    /\ UNCHANGED <<lastDriveCmd, issued, autonVars>>
    /\ UNCHANGED <<poseVars, pidVars, extVars>>

\* Cooperative scheduling: a background task (odometry_task_fn,
\* vision_task_fn) gets the CPU only while the command sleeps in wait_ms,
\* runs one pass of its loop and sleeps again.  No sensor moves here, so the
\* pass leaves Pose as it is.
BackgroundTasks == {"odom", "vision"}

BackgroundRun(t) ==
    /\ mpc = "wait"
    /\ t \notin bgRan
    /\ bgRan' = bgRan \cup {t}
    /\ UNCHANGED <<commands, active, itersSinceYield>>
    /\ UNCHANGED <<motionVars, poseVars, pidVars, extVars>>

(***************************************************************************)
(* Pose, sensors, odometry task, set_pose and vision correction            *)
(***************************************************************************)
Procs   == {"odom", "vision", "main", "reader"}
Readers == {"vision", "reader"}

\* Vision fusion parameters: confidence in percent, alpha in 1/10000, cm.
VISION_CORRECTION_ALPHA     == 40
VISION_MIN_CONFIDENCE       == 15
VISION_MAX_CORRECTION_M     == 30
VISION_MAX_CORRECTION_ALPHA == 3000
AlphaScale == 100 * 100

\* Arc a tracking wheel rolls per quarter turn of the robot (cm).
FORWARD_WHEEL_OFFSET == 3
LATERAL_WHEEL_OFFSET == 2

\* How often the sensors move, set_pose is called again after start-up and
\* vision_correct_odometry is called.
MaxMoves       == 2
MaxSetPose     == 1
MaxVisionCalls == 1

\* What the robot can do between two observations: roll forward or turn half a turn on the spot (the wheels roll their arcs).
Motions ==
    { [f |-> 10, l |-> 0, r |-> 0],
      [f |-> 2 * FORWARD_WHEEL_OFFSET, l |-> 2 * LATERAL_WHEEL_OFFSET, r |-> 2] }

SetPoseTargets == { [x |-> 30, y |-> 30, theta |-> 0] }

NoEstimate == [valid |-> FALSE, confidence |-> 0, x |-> 0, y |-> 0]

Estimates ==
    { NoEstimate,
      [valid |-> TRUE, confidence |-> 10,  x |-> 50,   y |-> 0],
      [valid |-> TRUE, confidence |-> 50,  x |-> -140, y |-> 0],
      [valid |-> TRUE, confidence |-> 30,  x |-> 250,  y |-> 0],
      [valid |-> TRUE, confidence |-> 100, x |-> 250,  y |-> 0] }

NoPose  == [x |-> 0, y |-> 0, theta |-> 0]
NoCopy  == [x |-> 0, y |-> 0, theta |-> 0, sxy |-> 0, sth |-> 0]
NoOdo   == [fwd_dist |-> 0, lat_dist |-> 0, d_forward |-> 0, d_lateral |-> 0,
            imu_rotation |-> 0, dtheta |-> 0]
StampMod == 3

\* cos and sin of a whole number of quarter turns.
Cos4(q) == CASE q % 4 = 0 -> 1 [] q % 4 = 1 -> 0 [] q % 4 = 2 -> -1 [] OTHER -> 0
Sin4(q) == Cos4(q - 1)

Dist2(ax, ay, bx, by) == (ax - bx) * (ax - bx) + (ay - by) * (ay - by)

Goto(p, l) == pc' = [pc EXCEPT ![p] = l]

\* ---- vex::mutex pose_mutex ----
Lock(p)   == pose_mutex = "free" /\ pose_mutex' = p
Unlock(p) == pose_mutex' = "free"

\* ---- the robot moves: the cumulative sensor readings change ----
Move(m) ==
    /\ moves < MaxMoves
    /\ moves' = moves + 1
    /\ fwdSensor' = fwdSensor + m.f
    /\ latSensor' = latSensor + m.l
    /\ imuSensor' = imuSensor + m.r
    /\ movedSinceReset' = TRUE
    /\ UNCHANGED <<motionVars, autonVars, pidVars, extVars>>
    /\ UNCHANGED <<pose_mutex, current_pose, poseStamp, nextStamp, baselineVars,
                   pc, odo, lastRead, prevRead, copy, estimate, corrected, new_pose,
                   setPoseCalls, visionCalls>>

\* ---- odometry_task_fn / odometry_update ----
\* Steps that touch only locals are joined to the preceding access of shared
\* state; the two statements that read (or write) the two wheels are one step.
OdoFrame == UNCHANGED <<motionVars, autonVars, pidVars, extVars, copy, estimate, corrected, new_pose, moves,
                        setPoseCalls, visionCalls, movedSinceReset>>

\* the task wakes up from vex::task::sleep, calls odometry_update;
\* lines 169-170: read both tracking wheels
OdomReadWheels ==
    /\ pc["odom"] = "o169"
    /\ odo' = [odo EXCEPT !.fwd_dist = fwdSensor, !.lat_dist = latSensor]
    /\ lastRead' = [lastRead EXCEPT !.f = fwdSensor, !.l = latSensor]
    /\ prevRead' = [prevRead EXCEPT !.f = lastRead.f, !.l = lastRead.l]
    /\ Goto("odom", "o171")
    /\ OdoFrame
    /\ UNCHANGED <<pose_mutex, current_pose, poseStamp, nextStamp, baselineVars,
                   sensorVars>>

\* lines 171-174: deltas against the stored baselines, which become the
\* values just read
\* lines 171-172 and 178: what a sensor moved since the previous tick
SensorDeltaCapped(reading, baseline) ==
    IF reading - baseline > 10 THEN 10 ELSE reading - baseline

SensorDeltaAbsolute(reading, baseline) == reading

SensorDelta(reading, baseline) == reading - baseline

OdomWheelDeltas ==
    /\ pc["odom"] = "o171"
    /\ odo' = [odo EXCEPT !.d_forward = SensorDelta(odo.fwd_dist, prev_forward_dist),
                          !.d_lateral = SensorDelta(odo.lat_dist, prev_lateral_dist)]
    /\ prev_forward_dist' = odo.fwd_dist
    /\ prev_lateral_dist' = odo.lat_dist
    /\ Goto("odom", "o177")
    /\ OdoFrame
    /\ UNCHANGED <<pose_mutex, current_pose, poseStamp, nextStamp,
                   prev_imu_rotation, sensorVars, lastRead, prevRead>>

\* line 177: read the IMU's cumulative rotation
OdomReadImu ==
    /\ pc["odom"] = "o177"
    /\ odo' = [odo EXCEPT !.imu_rotation = imuSensor]
    /\ lastRead' = [lastRead EXCEPT !.r = imuSensor]
    /\ prevRead' = [prevRead EXCEPT !.r = lastRead.r]
    /\ Goto("odom", "o178")
    /\ OdoFrame
    /\ UNCHANGED <<pose_mutex, current_pose, poseStamp, nextStamp, baselineVars,
                   sensorVars>>

\* lines 178-179: dtheta against the stored baseline, which becomes the
\* value just read
OdomImuDelta ==
    /\ pc["odom"] = "o178"
    /\ odo' = [odo EXCEPT !.dtheta = SensorDelta(odo.imu_rotation, prev_imu_rotation)]
    /\ prev_imu_rotation' = odo.imu_rotation
    /\ Goto("odom", "o188")
    /\ OdoFrame
    /\ UNCHANGED <<pose_mutex, current_pose, poseStamp, nextStamp,
                   prev_forward_dist, prev_lateral_dist, sensorVars, lastRead,
                   prevRead>>

\* lines 184-185 and 189-193: arc compensation, midpoint heading, x and y
IntegrateXYNoArc(p, o) ==
    LET mid_theta == p.theta + (o.dtheta \div 2)
    IN  [p EXCEPT
           !.x = p.x + o.d_forward * Cos4(mid_theta) - o.d_lateral * Sin4(mid_theta),
           !.y = p.y + o.d_forward * Sin4(mid_theta) + o.d_lateral * Cos4(mid_theta)]

IntegrateXY(p, o) ==
    LET d_fwd_corrected == o.d_forward - FORWARD_WHEEL_OFFSET * o.dtheta
        d_lat_corrected == o.d_lateral - LATERAL_WHEEL_OFFSET * o.dtheta
        mid_theta       == p.theta + (o.dtheta \div 2)
    IN  [p EXCEPT
           !.x = p.x + d_fwd_corrected * Cos4(mid_theta) - d_lat_corrected * Sin4(mid_theta),
           !.y = p.y + d_fwd_corrected * Sin4(mid_theta) + d_lat_corrected * Cos4(mid_theta)]

\* line 194: theta accumulates, it is never wrapped
IntegrateThetaWrapped(theta, dtheta) == (theta + dtheta) % 4

IntegrateTheta(theta, dtheta) == theta + dtheta

\* lines 188-193: lock, then x and y
OdomLockWriteXY ==
    /\ pc["odom"] = "o188"
    /\ Lock("odom")
    /\ current_pose' = IntegrateXY(current_pose, odo)
    /\ poseStamp' = [poseStamp EXCEPT !.xy = nextStamp]
    /\ Goto("odom", "o194")
    /\ OdoFrame
    /\ UNCHANGED <<nextStamp, baselineVars, sensorVars, odo, lastRead, prevRead>>

\* lines 194-195: theta, unlock; the update returns and the task sleeps
OdomWriteThetaUnlock ==
    /\ pc["odom"] = "o194"
    /\ current_pose' = [current_pose EXCEPT
                            !.theta = IntegrateTheta(current_pose.theta, odo.dtheta)]
    /\ poseStamp' = [poseStamp EXCEPT !.th = nextStamp]
    /\ nextStamp' = (nextStamp + 1) % StampMod
    /\ Unlock("odom")
    /\ odo' = NoOdo
    /\ Goto("odom", "o169")
    /\ OdoFrame
    /\ UNCHANGED <<baselineVars, sensorVars, lastRead, prevRead>>

\* ---- get_pose, called by p: the vision correction or a screen / logger /
\* motion-command reader ----
GetFrame == UNCHANGED <<motionVars, autonVars, pidVars, extVars, current_pose, poseStamp, nextStamp,
                        baselineVars, sensorVars, odo, lastRead, prevRead, estimate, corrected, new_pose, moves,
                        setPoseCalls, visionCalls, movedSinceReset>>

AfterGetPose(p) == IF p = "vision" THEN "v225" ELSE "r_ret"

\* pose_mutex.lock() of get_pose, line 199
GetPoseNoLock(p) == UNCHANGED pose_mutex

GetPoseLock(p) == Lock(p)

\* lines 199-200: lock; Pose copy = current_pose, x and y first
GetPoseLockCopyXY(p) ==
    /\ pc[p] = "g199"
    /\ GetPoseLock(p)
    /\ copy' = [copy EXCEPT ![p] = [@ EXCEPT !.x = current_pose.x, !.y = current_pose.y,
                                             !.sxy = poseStamp.xy]]
    /\ Goto(p, "g200")
    /\ GetFrame

\* lines 200-202: theta, unlock, return copy
GetPoseCopyThetaUnlock(p) ==
    /\ pc[p] = "g200"
    /\ copy' = [copy EXCEPT ![p] = [@ EXCEPT !.theta = current_pose.theta,
                                             !.sth = poseStamp.th]]
    /\ Unlock(p)
    /\ Goto(p, AfterGetPose(p))
    /\ GetFrame

\* a screen / logger / motion-command task has used the copy and calls
\* get_pose again on its next round
ReaderAgain ==
    /\ pc["reader"] = "r_ret"
    /\ copy' = [copy EXCEPT !["reader"] = NoCopy]
    /\ Goto("reader", "g199")
    /\ GetFrame
    /\ UNCHANGED pose_mutex

\* ---- set_pose(new_pose), called from the main / autonomous context ----
SetFrame == UNCHANGED <<motionVars, autonVars, pidVars, extVars, odo, lastRead, prevRead, copy, estimate,
                        corrected, moves, visionCalls>>

\* lines 206-207: lock; current_pose = new_pose, x and y first
SetPoseLockWriteXY(t) ==
    /\ pc["main"] = "m_idle"
    /\ setPoseCalls < MaxSetPose
    /\ setPoseCalls' = setPoseCalls + 1
    /\ new_pose' = t
    /\ movedSinceReset' = FALSE
    /\ Lock("main")
    /\ current_pose' = [current_pose EXCEPT !.x = t.x, !.y = t.y]
    /\ poseStamp' = [poseStamp EXCEPT !.xy = nextStamp]
    /\ Goto("main", "s207")
    /\ SetFrame
    /\ UNCHANGED <<nextStamp, baselineVars, sensorVars>>

\* lines 207-211: theta, the three baselines are zeroed, unlock
SetPoseBaselinesUnlock ==
    /\ pc["main"] = "s207"
    /\ current_pose' = [current_pose EXCEPT !.theta = new_pose.theta]
    /\ poseStamp' = [poseStamp EXCEPT !.th = nextStamp]
    /\ nextStamp' = (nextStamp + 1) % StampMod
    /\ prev_forward_dist' = 0
    /\ prev_lateral_dist' = 0
    /\ prev_imu_rotation' = 0
    /\ Unlock("main")
    /\ Goto("main", "s214")
    /\ SetFrame
    /\ UNCHANGED <<sensorVars, new_pose, setPoseCalls, movedSinceReset>>

\* lines 213-214: reset_encoders() (drive motors, not read by this odometry)
\* and reset_imu()
SetPoseResetImu ==
    /\ pc["main"] = "s214"
    /\ imuSensor' = 0
    /\ Goto("main", "s215")
    /\ SetFrame
    /\ UNCHANGED <<pose_mutex, current_pose, poseStamp, nextStamp, baselineVars,
                   fwdSensor, latSensor, new_pose, setPoseCalls, movedSinceReset>>

\* line 215: tracking_wheels_reset(), and set_pose returns
SetPoseResetWheels ==
    /\ pc["main"] = "s215"
    /\ fwdSensor' = 0
    /\ latSensor' = 0
    /\ Goto("main", "m_idle")
    /\ SetFrame
    /\ UNCHANGED <<pose_mutex, current_pose, poseStamp, nextStamp, baselineVars,
                   imuSensor, new_pose, setPoseCalls, movedSinceReset>>

\* ---- vision_correct_odometry(estimate) ----
VisFrame == UNCHANGED <<motionVars, autonVars, pidVars, extVars, sensorVars, odo, lastRead, prevRead, new_pose, moves,
                        setPoseCalls, movedSinceReset>>

\* lines 218-219
UsableAlways(e) == TRUE

Usable(e) == e.valid /\ ~(e.confidence < VISION_MIN_CONFIDENCE)

\* the call, and lines 218-219: return at once unless the estimate is usable
VisionCall(e) ==
    /\ pc["vision"] = "v_idle"
    /\ visionCalls < MaxVisionCalls
    /\ visionCalls' = visionCalls + 1
    /\ estimate' = e
    /\ Goto("vision", IF Usable(e) THEN "g199" ELSE "v_noop")
    /\ VisFrame
    /\ UNCHANGED <<pose_mutex, current_pose, poseStamp, nextStamp, baselineVars,
                   copy, corrected>>

\* lines 225-228
Alpha(e) ==
    LET a == VISION_CORRECTION_ALPHA * e.confidence
    IN  IF a > VISION_MAX_CORRECTION_ALPHA THEN VISION_MAX_CORRECTION_ALPHA ELSE a

\* lines 230-234
Blend(cur, e) ==
    [x     |-> ((AlphaScale - Alpha(e)) * cur.x + Alpha(e) * e.x) \div AlphaScale,
     y     |-> ((AlphaScale - Alpha(e)) * cur.y + Alpha(e) * e.y) \div AlphaScale,
     theta |-> cur.theta]

\* lines 238-242: correction_dist < VISION_MAX_CORRECTION_M
Accepts(cur, c) ==
    Dist2(c.x, c.y, cur.x, cur.y) < VISION_MAX_CORRECTION_M * VISION_MAX_CORRECTION_M

\* lines 225-242: blend and decide
VisionBlend ==
    /\ pc["vision"] = "v225"
    /\ corrected' = Blend(copy["vision"], estimate)
    /\ Goto("vision", IF Accepts(copy["vision"], Blend(copy["vision"], estimate))
                      THEN "n219" ELSE "v_rejected")
    /\ VisFrame
    /\ UNCHANGED <<pose_mutex, current_pose, poseStamp, nextStamp, baselineVars,
                   copy, estimate, visionCalls>>

\* What set_pose_no_reset does to the baselines: nothing.
NoResetBaselinesZeroed ==
    /\ prev_forward_dist' = 0
    /\ prev_lateral_dist' = 0
    /\ prev_imu_rotation' = 0

NoResetBaselines == UNCHANGED baselineVars

\* set_pose_no_reset(corrected), lines 219-220: lock; current_pose =
\* new_pose, x and y first
NoResetLockWriteXY ==
    /\ pc["vision"] = "n219"
    /\ Lock("vision")
    /\ current_pose' = [current_pose EXCEPT !.x = corrected.x, !.y = corrected.y]
    /\ poseStamp' = [poseStamp EXCEPT !.xy = nextStamp]
    /\ UNCHANGED baselineVars
    /\ Goto("vision", "n220")
    /\ VisFrame
    /\ UNCHANGED <<nextStamp, copy, estimate, corrected, visionCalls>>

\* lines 220-221: theta, unlock; back in vision_correct_odometry at the
\* "applied" log line
NoResetWriteThetaUnlock ==
    /\ pc["vision"] = "n220"
    /\ current_pose' = [current_pose EXCEPT !.theta = corrected.theta]
    /\ poseStamp' = [poseStamp EXCEPT !.th = nextStamp]
    /\ nextStamp' = (nextStamp + 1) % StampMod
    /\ NoResetBaselines
    /\ Unlock("vision")
    /\ Goto("vision", "v_applied")
    /\ VisFrame
    /\ UNCHANGED <<copy, estimate, corrected, visionCalls>>

\* vision_correct_odometry returns (after its log line, if any)
VisionReturn ==
    /\ pc["vision"] \in {"v_noop", "v_rejected", "v_applied"}
    /\ Goto("vision", "v_idle")
    /\ copy' = [copy EXCEPT !["vision"] = NoCopy]
    /\ estimate' = NoEstimate
    /\ corrected' = NoPose
    /\ VisFrame
    /\ UNCHANGED <<pose_mutex, current_pose, poseStamp, nextStamp, baselineVars,
                   visionCalls>>

InitPose ==
    /\ pose_mutex = "free"
    /\ current_pose = NoPose
    /\ poseStamp = [xy |-> 0, th |-> 0]
    /\ nextStamp = 1
    /\ prev_forward_dist = 0
    /\ prev_lateral_dist = 0
    /\ prev_imu_rotation = 0
    /\ fwdSensor = 0
    /\ latSensor = 0
    /\ imuSensor = 0
    /\ pc = [p \in Procs |-> CASE p = "odom" -> "o169" [] p = "vision" -> "v_idle"
                               [] p = "main" -> "m_idle" [] OTHER -> "g199"]
    /\ odo = NoOdo
    /\ lastRead = [f |-> 0, l |-> 0, r |-> 0]
    /\ prevRead = [f |-> 0, l |-> 0, r |-> 0]
    /\ copy = [p \in Readers |-> NoCopy]
    /\ estimate = NoEstimate
    /\ corrected = NoPose
    /\ new_pose = NoPose
    /\ moves = 0
    /\ setPoseCalls = 0
    /\ visionCalls = 0
    /\ movedSinceReset = FALSE

(***************************************************************************)
(* PIDController (control/pid.cpp)                                         *)
(*                                                                         *)
(* Time is in hundredths of a second, so the floor of dt (0.01 s) is 1 and *)
(* Ki, Kd are per that unit.  The derivative, the three terms and the      *)
(* output are kept in units of 1/DerivScale so that the division by dt and *)
(* the halving of the derivative filter stay whole numbers.                *)
(***************************************************************************)
DtFloor == 1
DerivScale == 16

MaxPidCalls == 2
MaxPidTime  == 3

PidGains == { [kp |-> 1, ki |-> 1, kd |-> 1], [kp |-> 10, ki |-> 0, kd |-> 0] }
PidSetpoints == {0, 10}
PidMeasured  == {0, 100}
\* limits handed to the setters; 0 switches the feature off
IntegralLimits == {0, 8}
\* alpha in tenths: off, and the 0.7 of DRIVE_D_FILTER and the host test
FilterScale    == 10
DFilterTenths  == {0, 7}
OutputLimits   == {0, 12 * DerivScale}

NoController == [built |-> FALSE, kp |-> 0, ki |-> 0, kd |-> 0,
                 integral |-> 0, prev_error |-> 0, last_time |-> 0,
                 integral_limit |-> 0, d_filter_alpha |-> 0,
                 filtered_deriv |-> 0, output_limit |-> 0]

\* lines 19-23: the constructor
Constructed(g) ==
    [NoController EXCEPT !.built = TRUE, !.kp = g.kp, !.ki = g.ki, !.kd = g.kd]

\* lines 31-34: dt, never zero or negative
DtUsedOtherFloor(elapsed) == IF elapsed <= 0 THEN 2 * DtFloor ELSE elapsed

DtUsed(elapsed) == IF elapsed <= 0 THEN DtFloor ELSE elapsed

\* lines 50-53: anti-windup clamp of the integral
ClampIntegralUpperOnly(v, limit) ==
    IF limit > 0 /\ v > limit THEN limit ELSE v

ClampIntegral(v, limit) ==
    IF limit > 0
    THEN (IF v > limit THEN limit ELSE IF v < -limit THEN -limit ELSE v)
    ELSE v

\* lines 81-84: clamp of the output
ClampOutputUpperOnly(v, limit) ==
    IF limit > 0 /\ v > limit THEN limit ELSE v

ClampOutput(v, limit) ==
    IF limit > 0
    THEN (IF v > limit THEN limit ELSE IF v < -limit THEN -limit ELSE v)
    ELSE v

\* line 42: p_out = _kp * error
ProportionalTermUnitGain(kp, error) == error * DerivScale

ProportionalTerm(kp, error) == kp * error * DerivScale

\* lines 66-71: the derivative low-pass filter (EMA)
FilteredWeightsSwapped(alpha, prev, raw) ==
    IF alpha > 0
    THEN ((FilterScale - alpha) * prev + alpha * raw) \div FilterScale
    ELSE raw

Filtered(alpha, prev, raw) ==
    IF alpha > 0
    THEN (alpha * prev + (FilterScale - alpha) * raw) \div FilterScale
    ELSE raw

\* lines 26-86: calculate(setpoint, pv) on controller c at time t; the new
\* members, the dt used, the unclamped sum and the returned output.
Calculate(c, t, setpoint, pv) ==
    LET elapsed   == t - c.last_time
        dt        == DtUsed(elapsed)
        error     == setpoint - pv
        p_out     == ProportionalTerm(c.kp, error)
        integral  == ClampIntegral(c.integral + error * dt, c.integral_limit)
        i_out     == c.ki * integral * DerivScale
        raw_deriv == ((error - c.prev_error) * DerivScale) \div dt
        filtered  == Filtered(c.d_filter_alpha, c.filtered_deriv, raw_deriv)
        d_out     == c.kd * filtered
        output    == p_out + i_out + d_out
    IN  [ctl     |-> [c EXCEPT !.integral = integral, !.filtered_deriv = filtered,
                               !.prev_error = error, !.last_time = t],
         elapsed |-> elapsed,
         dt      |-> dt,
         deriv   |-> [before |-> c.filtered_deriv, raw |-> raw_deriv],
         raw     |-> output,
         out     |-> ClampOutput(output, c.output_limit)]

\* lines 98-100: the setters
SetIntegralLimit(c, limit) == [c EXCEPT !.integral_limit = limit]
SetDFilter(c, alpha)       == [c EXCEPT !.d_filter_alpha = alpha]
SetOutputLimit(c, limit)   == [c EXCEPT !.output_limit = limit]

\* lines 90-95: reset() at time t
ResetToDefaults(c, t) ==
    [c EXCEPT !.integral = 0, !.prev_error = 0, !.filtered_deriv = 0,
              !.last_time = t,
              !.integral_limit = 0, !.d_filter_alpha = 0, !.output_limit = 0]

Reset(c, t) ==
    [c EXCEPT !.integral = 0, !.prev_error = 0, !.filtered_deriv = 0,
              !.last_time = t]

PidFrame == UNCHANGED <<motionVars, autonVars, poseVars, extVars>>

PidConstruct(g) ==
    /\ ~pid.built
    /\ pid' = Constructed(g)
    /\ UNCHANGED <<pidNow, pidCalls, pidElapsed, pidDt, pidRaw, pidOut, pidFresh, pidDeriv>>
    /\ PidFrame

\* lines 98-100: the setters
PidSetIntegralLimit(limit) ==
    /\ pid.built
    /\ pid' = SetIntegralLimit(pid, limit)
    /\ UNCHANGED <<pidNow, pidCalls, pidElapsed, pidDt, pidRaw, pidOut, pidFresh, pidDeriv>>
    /\ PidFrame

PidSetDFilter(alpha) ==
    /\ pid.built
    /\ pid' = SetDFilter(pid, alpha)
    /\ UNCHANGED <<pidNow, pidCalls, pidElapsed, pidDt, pidRaw, pidOut, pidFresh, pidDeriv>>
    /\ PidFrame

PidSetOutputLimit(limit) ==
    /\ pid.built
    /\ pid' = SetOutputLimit(pid, limit)
    /\ UNCHANGED <<pidNow, pidCalls, pidElapsed, pidDt, pidRaw, pidOut, pidFresh, pidDeriv>>
    /\ PidFrame

PidReset ==
    /\ pid.built
    /\ pid' = Reset(pid, pidNow)
    /\ pidFresh' = TRUE
    /\ UNCHANGED <<pidNow, pidCalls, pidElapsed, pidDt, pidRaw, pidOut, pidDeriv>>
    /\ PidFrame

PidCalculate(setpoint, pv) ==
    /\ pid.built
    /\ pidCalls < MaxPidCalls
    /\ LET r == Calculate(pid, pidNow, setpoint, pv) IN
          /\ pid' = r.ctl
          /\ pidElapsed' = r.elapsed
          /\ pidDt' = r.dt
          /\ pidRaw' = r.raw
          /\ pidOut' = r.out
          /\ pidDeriv' = r.deriv
    /\ pidCalls' = pidCalls + 1
    /\ pidFresh' = FALSE
    /\ UNCHANGED pidNow
    /\ PidFrame

\* the clock advances between two calls
PidTick ==
    /\ pidNow < MaxPidTime
    /\ pidNow' = pidNow + 1
    /\ UNCHANGED <<pid, pidCalls, pidElapsed, pidDt, pidRaw, pidOut, pidFresh, pidDeriv>>
    /\ PidFrame

InitPid ==
    /\ pidNow = 0
    /\ pid = NoController
    /\ pidCalls = 0
    /\ pidElapsed = 0
    /\ pidDt = 0
    /\ pidRaw = 0
    /\ pidOut = 0
    /\ pidFresh = FALSE
    /\ pidDeriv = [before |-> 0, raw |-> 0]

NextPid ==
    \/ \E g \in PidGains : PidConstruct(g)
    \/ \E l \in IntegralLimits : PidSetIntegralLimit(l)
    \/ \E a \in DFilterTenths : PidSetDFilter(a)
    \/ \E m \in OutputLimits : PidSetOutputLimit(m)
    \/ PidReset
    \/ \E sp \in PidSetpoints, pv \in PidMeasured : PidCalculate(sp, pv)
    \/ PidTick

(***************************************************************************)
(* vision_localizer_update (localization/vision_localizer.cpp)             *)
(*                                                                         *)
(* Distances are in millimetres, pixel sizes in pixels, the heading in     *)
(* quarter turns.  The detections sit in the image centre, so that         *)
(* estimate_bearing gives 0 and cos / sin stay exact.  The confidence      *)
(* dist_conf * size_conf is kept in units of 1 / (MAX_VISION_RANGE * 100). *)
(***************************************************************************)
\* lines 69-79: FIELD_TAGS, id -> position
FIELD_TAGS ==
    [id \in 1..8 |->
        CASE id = 1 -> [x |-> 0,    y |-> 1220]
          [] id = 2 -> [x |-> 3658, y |-> 1220]
          [] id = 3 -> [x |-> 0,    y |-> 2440]
          [] id = 4 -> [x |-> 3658, y |-> 2440]
          [] id = 5 -> [x |-> 910,  y |-> 0]
          [] id = 6 -> [x |-> 2740, y |-> 0]
          [] id = 7 -> [x |-> 910,  y |-> 3658]
          [] OTHER  -> [x |-> 2740, y |-> 3658]]

APRILTAG_REAL_SIZE     == 100
VISION_FOCAL_LENGTH    == 600
MIN_TAG_PIXELS         == 10
MAX_VISION_RANGE       == 3000
VISION_CAMERA_ANGLE    == 0
VISION_CAMERA_OFFSET_X == 100
VISION_CAMERA_OFFSET_Y == 0
\* line 124: size_conf = pixel_size / 100.0
FullSizePixels == 100

MaxTags == 3

\* What the camera can report for one tag.
Detections ==
    { [valid |-> FALSE, id |-> 1,  width |-> 60,  height |-> 60],   \* not valid
      [valid |-> TRUE,  id |-> 99, width |-> 120, height |-> 120],  \* unknown id
      [valid |-> TRUE,  id |-> 1,  width |-> 8,   height |-> 9],    \* undersized
      [valid |-> TRUE,  id |-> 1,  width |-> 15,  height |-> 12],   \* beyond max range
      [valid |-> TRUE,  id |-> 6,  width |-> 20,  height |-> 20],   \* at max range
      [valid |-> TRUE,  id |-> 2,  width |-> 40,  height |-> 30],
      [valid |-> TRUE,  id |-> 3,  width |-> 30,  height |-> 40],   \* same confidence
      [valid |-> TRUE,  id |-> 5,  width |-> 50,  height |-> 300] }  \* close, large

Frames == UNION { [1..n -> Detections] : n \in 0..MaxTags }

LocThetas == {0, 1}

\* lines 143-148
InvalidEstimate == [valid |-> FALSE, confidence |-> 0, x |-> 0, y |-> 0, heading |-> 0]

\* lines 90-95: find_field_tag(id) != nullptr
KnownTag(id) == id \in DOMAIN FIELD_TAGS

\* line 172
PixelSize(tag) == IF tag.width > tag.height THEN tag.width ELSE tag.height

\* lines 100-103: estimate_distance
EstimateDistance(pixel_size) ==
    IF pixel_size < MIN_TAG_PIXELS
    THEN -1
    ELSE (APRILTAG_REAL_SIZE * VISION_FOCAL_LENGTH) \div pixel_size

\* lines 124-125: size_conf, saturating at 1.0 (in 1/FullSizePixels)
SizeFactorUnclamped(pixel_size) == pixel_size

SizeFactor(pixel_size) ==
    IF pixel_size > FullSizePixels THEN FullSizePixels ELSE pixel_size

\* confidence 1.0 in the units of ComputeConfidence
ConfidenceOne == MAX_VISION_RANGE * FullSizePixels

\* lines 115-129: compute_confidence
ComputeConfidence(distance, pixel_size) ==
    IF distance <= 0 \/ distance > MAX_VISION_RANGE
    THEN 0
    ELSE LET dist_conf == MAX_VISION_RANGE - distance
             size_conf == SizeFactor(pixel_size)
         IN  (IF dist_conf < 0 THEN 0 ELSE dist_conf) * size_conf

\* lines 172-194 and 198-202: the estimate a detection of a known tag of
\* sufficient size stands for
CandidateEstimate(tag, theta) ==
    LET pixel_size    == PixelSize(tag)
        distance      == EstimateDistance(pixel_size)
        bearing_field == theta + VISION_CAMERA_ANGLE
    IN  [valid      |-> TRUE,
         confidence |-> ComputeConfidence(distance, pixel_size),
         x          |-> FIELD_TAGS[tag.id].x - distance * Cos4(bearing_field)
                          - VISION_CAMERA_OFFSET_X * Cos4(theta)
                          + VISION_CAMERA_OFFSET_Y * Sin4(theta),
         y          |-> FIELD_TAGS[tag.id].y - distance * Sin4(bearing_field)
                          - VISION_CAMERA_OFFSET_X * Sin4(theta)
                          - VISION_CAMERA_OFFSET_Y * Cos4(theta),
         heading    |-> theta]

\* line 197: if (conf > best_estimate.confidence)
KeepsLatest(conf, best) == conf > 0

Keeps(conf, best) == conf > best.confidence

\* lines 161-203: one round of the loop body
ProcessTag(tag, theta, best) ==
    IF ~tag.valid THEN best
    ELSE IF ~KnownTag(tag.id) THEN best
    ELSE IF EstimateDistance(PixelSize(tag)) < 0 THEN best
    ELSE IF Keeps(CandidateEstimate(tag, theta).confidence, best)
         THEN CandidateEstimate(tag, theta)
         ELSE best

LocFrame == UNCHANGED <<motionVars, autonVars, poseVars, pidVars, drvVars, profVars,
                        cmdPidVars, hwVars>>

\* lines 143-157: the snapshot; return at once on an empty frame, else
\* get_pose()
LocalizerSnapshot(f, th) ==
    /\ locPc = "idle"
    /\ frame' = f
    /\ last_tag_count' = Len(f)
    /\ best_estimate' = InvalidEstimate
    /\ tagIndex' = 1
    /\ locTheta' = IF Len(f) = 0 THEN 0 ELSE th
    /\ locPc' = IF Len(f) = 0 THEN "ret" ELSE "loop"
    /\ LocFrame

\* lines 160-204: one detection
LocalizerTag ==
    /\ locPc = "loop"
    /\ best_estimate' = ProcessTag(frame[tagIndex], locTheta, best_estimate)
    /\ tagIndex' = tagIndex + 1
    /\ locPc' = IF tagIndex = Len(frame) THEN "ret" ELSE "loop"
    /\ UNCHANGED <<frame, locTheta, last_tag_count>>
    /\ LocFrame

\* line 212: return best_estimate
LocalizerReturn ==
    /\ locPc = "ret"
    /\ locPc' = "idle"
    /\ frame' = << >>
    /\ tagIndex' = 1
    /\ locTheta' = 0
    /\ best_estimate' = InvalidEstimate
    /\ UNCHANGED last_tag_count
    /\ LocFrame

InitLoc ==
    /\ locPc = "idle"
    /\ frame = << >>
    /\ tagIndex = 1
    /\ locTheta = 0
    /\ best_estimate = InvalidEstimate
    /\ last_tag_count = 0

NextLoc ==
    \/ \E f \in Frames, th \in LocThetas : LocalizerSnapshot(f, th)
    \/ LocalizerTag
    \/ LocalizerReturn

(***************************************************************************)
(* drive_to_pose: linear speed, differential drive and set_drive_motors    *)
(* (motion/drive_to_pose.cpp, hal/motors.cpp)                              *)
(*                                                                         *)
(* Speeds are in mm/s, distances in mm, voltages in mV, heading errors in  *)
(* degrees; cos is in thousandths.  raw_v (m/s) and omega * WHEEL_TRACK/2  *)
(* are added as the code adds them, and the sum is handed to               *)
(* set_drive_motors as a voltage.                                          *)
(***************************************************************************)
MAX_VELOCITY     == 1200
MAX_ACCELERATION == 3000
WHEEL_TRACK      == 330
MaxVoltage       == 12000

\* Ticks of one invocation: the first MaxVariedTicks draw every combination
\* of the inputs below, the later ones centred inputs only, long enough for
\* the speed to ramp up to MAX_VELOCITY (MAX_VELOCITY / MaxDv ticks).
MaxVariedTicks == 2
MaxDriveTicks  == 44

\* Inputs of one tick: distance to the target, normalised heading error and
\* the output of the angular PID (clamped to 12 V by its output limit).
DriveDistSamples == {0, 15, 500}
\* atan2 towards the carrot (line 350) and the accumulated, never wrapped
\* heading of the pose, up to MaxTurns full turns either way
CarrotBearingSamples == {0, 180}
MaxTurns == 2
ThetaOffsets == {0, 60, 90, 120, 180, 240, 270, 300}
ThetaSamples == { o + 360 * k : o \in ThetaOffsets, k \in -MaxTurns..(MaxTurns - 1) }
OmegaSamples == {-12000, 0, 12000}
\* headings of the later ticks: towards, across and away from the carrot
CruiseThetaSamples == {0, 90, 180}
\* Voltages other callers hand to set_drive_motors.
VoltageSamples == {-15000, -12000, 0, 12000, 12001}

\* line 351: if (reverse) target_heading += M_PI
TargetHeading(bearing, rev) == IF rev THEN bearing + 180 ELSE bearing

\* lines 355-356 (turn_to_heading lines 60-61): atan2(sin(e), cos(e)).
\* sin and cos keep e modulo a full turn; atan2 returns the angle in
\* [-180, 180], and at half a turn the sign of sin(e), which is that of e.
NormalizedOneTurnOnly(e) == IF e > 180 THEN e - 360 ELSE IF e < -180 THEN e + 360 ELSE e

Normalized(e) ==
    LET r == e % 360
    IN  IF r = 180 THEN (IF e < 0 THEN -180 ELSE 180)
        ELSE IF r > 180 THEN r - 360 ELSE r

HeadingError(target_heading, theta) == Normalized(target_heading - theta)

\* cos(heading_error), in thousandths
CosMilli(deg) ==
    CASE Abs(deg) = 0   -> 1000
      [] Abs(deg) = 60  -> 500
      [] Abs(deg) = 90  -> 0
      [] Abs(deg) = 120 -> -500
      [] OTHER          -> -1000

RECURSIVE SqrtBetween(_, _, _)
SqrtBetween(n, lo, hi) ==
    IF lo = hi THEN lo
    ELSE LET mid == (lo + hi + 1) \div 2
         IN  IF mid * mid <= n THEN SqrtBetween(n, mid, hi)
             ELSE SqrtBetween(n, lo, mid - 1)

\* sqrt, rounded down
Sqrt(n) == SqrtBetween(n, 0, 65535)

\* lines 360-361: min(sqrt(2 a dist), MAX_VELOCITY)
DecelUncapped(dist) == Sqrt(2 * MAX_ACCELERATION * dist)

DecelLimited(dist) ==
    LET decel_v == Sqrt(2 * MAX_ACCELERATION * dist)
    IN  IF decel_v < MAX_VELOCITY THEN decel_v ELSE MAX_VELOCITY

\* lines 366-367: cos_err, never negative
CosThrottleSigned(c) == c

CosThrottle(c) == IF c < 0 THEN 0 ELSE c

\* lines 360-369: the speed target of the tick, before slew limiting
RawTarget(dist, err, rev) ==
    LET raw_v == (DecelLimited(dist) * CosThrottle(CosMilli(err))) \div 1000
    IN  IF rev THEN -raw_v ELSE raw_v

\* line 372
MaxDv == (MAX_ACCELERATION * LOOP_INTERVAL_MS) \div 1000

\* lines 373-374: acceleration limit in both directions
SlewLimitedUpOnly(raw_v, prev) ==
    IF raw_v - prev > MaxDv THEN prev + MaxDv ELSE raw_v

SlewLimited(raw_v, prev) ==
    LET up == IF raw_v - prev > MaxDv THEN prev + MaxDv ELSE raw_v
    IN  IF prev - up > MaxDv THEN prev - MaxDv ELSE up

\* motors.cpp lines 26-30: clamp_voltage
ClampVoltageUpperOnly(v) == IF v > MaxVoltage THEN MaxVoltage ELSE v

ClampVoltage(v) ==
    IF v > MaxVoltage THEN MaxVoltage
    ELSE IF v < -MaxVoltage THEN -MaxVoltage ELSE v

\* motors.cpp lines 46-58: what set_drive_motors(l, r) hands to spin()
SetDriveMotors(l, r) ==
    /\ motorArgs' = [left |-> l, right |-> r]
    /\ motorVolts' = [left |-> ClampVoltage(l), right |-> ClampVoltage(r)]

DrvFrame == UNCHANGED <<motionVars, autonVars, poseVars, pidVars, locVars, profVars,
                        cmdPidVars, hwVars>>

\* lines 304-315: drive_to_pose is entered
DriveEnter(rev) ==
    /\ drvPc = "idle"
    /\ drvPc' = "run"
    /\ reverse' = rev
    /\ prev_cmd_v' = 0
    /\ cmdBefore' = 0
    /\ rawTarget' = 0
    /\ headingRaw' = 0
    /\ headingErr' = 0
    /\ drvTicks' = 0
    /\ UNCHANGED <<motorArgs, motorVolts>>
    /\ DrvFrame

\* lines 323-390: one tick that does not leave the loop
DriveTick(dist, bearing, theta, omega) ==
    /\ drvPc = "run"
    /\ drvTicks < MaxDriveTicks
    /\ drvTicks' = drvTicks + 1
    /\ LET target_heading == TargetHeading(bearing, reverse)
           heading_error  == HeadingError(target_heading, theta)
           raw_v == SlewLimited(RawTarget(dist, heading_error, reverse), prev_cmd_v)
       IN  /\ headingRaw' = target_heading - theta
           /\ headingErr' = heading_error
           /\ rawTarget' = RawTarget(dist, heading_error, reverse)
           /\ cmdBefore' = prev_cmd_v
           /\ prev_cmd_v' = raw_v
           /\ SetDriveMotors(raw_v - (omega * WHEEL_TRACK) \div 2000,
                             raw_v + (omega * WHEEL_TRACK) \div 2000)
    /\ UNCHANGED <<drvPc, reverse>>
    /\ DrvFrame

\* lines 320, 337, 393-394: a break leaves the loop; stop_drive_motors()
\* and return, which ends the life of the locals
DriveLeave ==
    /\ drvPc = "run"
    /\ drvPc' = "idle"
    /\ motorArgs' = [left |-> 0, right |-> 0]
    /\ motorVolts' = [left |-> 0, right |-> 0]
    /\ reverse' = FALSE
    /\ prev_cmd_v' = 0
    /\ cmdBefore' = 0
    /\ rawTarget' = 0
    /\ headingRaw' = 0
    /\ headingErr' = 0
    /\ drvTicks' = 0
    /\ DrvFrame

\* turn_to_heading line 86 / usercontrol: another caller of set_drive_motors
OtherSetDriveMotors(l, r) ==
    /\ drvPc = "idle"
    /\ SetDriveMotors(l, r)
    /\ UNCHANGED <<drvPc, reverse, prev_cmd_v, cmdBefore, rawTarget, headingRaw,
                   headingErr, drvTicks>>
    /\ DrvFrame

InitDrv ==
    /\ drvPc = "idle"
    /\ reverse = FALSE
    /\ prev_cmd_v = 0
    /\ cmdBefore = 0
    /\ rawTarget = 0
    /\ headingRaw = 0
    /\ headingErr = 0
    /\ drvTicks = 0
    /\ motorArgs = [left |-> 0, right |-> 0]
    /\ motorVolts = [left |-> 0, right |-> 0]

NextDrv ==
    \/ \E rev \in BOOLEAN : DriveEnter(rev)
    \/ \E d \in DriveDistSamples, b \in CarrotBearingSamples, th \in ThetaSamples,
          w \in OmegaSamples : drvTicks < MaxVariedTicks /\ DriveTick(d, b, th, w)
    \/ \E d \in DriveDistSamples, th \in CruiseThetaSamples : DriveTick(d, 0, th, 0)
    \/ DriveLeave
    \/ \E l \in VoltageSamples, r \in VoltageSamples : OtherSetDriveMotors(l, r)

(***************************************************************************)
(* MotionProfile (control/motion_profile.cpp)                              *)
(*                                                                         *)
(* Velocities in mm/s, accelerations in mm/s^2, distances in mm, the       *)
(* elapsed time in ms.                                                     *)
(***************************************************************************)
\* Constructor arguments: the host tests' profile and the drive's
\* MotionProfile(MAX_VELOCITY, MAX_ACCELERATION).
Profiles ==
    { [max_velocity |-> 1000, max_acceleration |-> 2000],
      [max_velocity |-> MAX_VELOCITY, max_acceleration |-> MAX_ACCELERATION] }

NoProfile == [max_velocity |-> 0, max_acceleration |-> 0]

\* time_sec = (get_time_ms() - drive_start) / 1000.0 of an unsigned
\* difference, and the tests' t: never negative.
ElapsedSamples == {0, 10, 50, 100, 400, 500, 1000, 4000}
\* dist_to_go, and distances of either sign
DistanceToGoSamples == {-100, 0, 1, 50, 100, 250, 5000}

Min2(a, b) == IF a < b THEN a ELSE b

\* line 42: std::min({_max_velocity, accel_v, decel_v})
SlowestOfRamps(max_v, accel_v, decel_v) == Min2(accel_v, decel_v)

SlowestOf(max_v, accel_v, decel_v) == Min2(max_v, Min2(accel_v, decel_v))

\* lines 31-43
GetTargetVelocity(p, time_elapsed, distance_to_go) ==
    LET accel_v == (p.max_acceleration * time_elapsed) \div 1000
        decel_v == Sqrt(2 * p.max_acceleration * Abs(distance_to_go))
    IN  SlowestOf(p.max_velocity, accel_v, decel_v)

ProfFrame == UNCHANGED <<motionVars, autonVars, poseVars, pidVars, locVars, drvVars,
                         cmdPidVars, hwVars>>

\* lines 27-28: the constructor
ProfileConstruct(p) ==
    /\ profile = NoProfile
    /\ profile' = p
    /\ UNCHANGED <<profArgs, profOut, profCalls>>
    /\ ProfFrame

\* a call of get_target_velocity
ProfileCall(t, d) ==
    /\ profile # NoProfile
    /\ profArgs' = [time_elapsed |-> t, distance_to_go |-> d]
    /\ profOut' = GetTargetVelocity(profile, t, d)
    /\ profCalls' = 1
    /\ UNCHANGED profile
    /\ ProfFrame

InitProf ==
    /\ profile = NoProfile
    /\ profArgs = [time_elapsed |-> 0, distance_to_go |-> 0]
    /\ profOut = 0
    /\ profCalls = 0

NextProf ==
    \/ \E p \in Profiles : ProfileConstruct(p)
    \/ \E t \in ElapsedSamples, d \in DistanceToGoSamples : ProfileCall(t, d)

(***************************************************************************)
(* The PID controllers of the motion commands: the module-level turn_pid   *)
(* of turn_to_heading and the local angular_pid of drive_to_pose           *)
(* (motion/turn_to_heading.cpp, motion/drive_to_pose.cpp).                 *)
(* Units as for PIDController above.                                       *)
(***************************************************************************)
\* TURN_KP, TURN_KI, TURN_KD: all three terms in use
TurnGains == [kp |-> 1, ki |-> 1, kd |-> 1]
\* TURN_INTEGRAL_LIMIT, TURN_D_FILTER (0.5, in tenths) and 12.0 V
TurnIntegralLimit == 8
TurnDFilterTenths == 5
TurnOutputLimit   == 12 * DerivScale

MaxInvocations == 2
MaxCmdCalcs    == 2
MaxCmdTime     == 3

\* heading errors handed to calculate(0.0, -error)
CmdErrSamples == {0, 10, -100}

NoSnapshot == [taken |-> FALSE, ctl |-> NoController]

\* the three setters of lines 41-43 / 307-309
Configured(c) ==
    [c EXCEPT !.integral_limit = TurnIntegralLimit,
              !.d_filter_alpha = TurnDFilterTenths,
              !.output_limit   = TurnOutputLimit]

\* turn_to_heading lines 40-43: reset, then the setters
TurnEntryNoReset(c, t) == Configured(c)

TurnEntry(c, t) == Configured(Reset(c, t))

\* drive_to_pose lines 306-310: construct, setters, then reset
DriveEntry(t) == Reset(Configured(Constructed(TurnGains)), t)

CmdFrame == UNCHANGED <<motionVars, autonVars, poseVars, pidVars, locVars, drvVars,
                        profVars, hwVars>>

TurnPidEnter ==
    /\ cpPc = "idle"
    /\ invocations < MaxInvocations
    /\ cpCmd' = "turn"
    /\ cpPc' = "loop"
    /\ turn_pid' = TurnEntry(turn_pid, cpNow)
    /\ cmdCalcs' = 0
    /\ firstCalc' = NoSnapshot
    /\ UNCHANGED <<angular_pid, cpNow, invocations>>
    /\ CmdFrame

DrivePidEnter ==
    /\ cpPc = "idle"
    /\ invocations < MaxInvocations
    /\ cpCmd' = "drive"
    /\ cpPc' = "loop"
    /\ angular_pid' = DriveEntry(cpNow)
    /\ cmdCalcs' = 0
    /\ firstCalc' = NoSnapshot
    /\ UNCHANGED <<turn_pid, cpNow, invocations>>
    /\ CmdFrame

\* turn_to_heading line 77 (35) / drive_to_pose line 379
CmdCalculate(err) ==
    /\ cpPc = "loop"
    /\ cmdCalcs < MaxCmdCalcs
    /\ cmdCalcs' = cmdCalcs + 1
    /\ firstCalc' = IF cmdCalcs = 0
                    THEN [taken |-> TRUE,
                          ctl   |-> IF cpCmd = "turn" THEN turn_pid ELSE angular_pid]
                    ELSE firstCalc
    /\ IF cpCmd = "turn"
       THEN /\ turn_pid' = Calculate(turn_pid, cpNow, 0, -err).ctl
            /\ UNCHANGED angular_pid
       ELSE /\ angular_pid' = Calculate(angular_pid, cpNow, 0, -err).ctl
            /\ UNCHANGED turn_pid
    /\ UNCHANGED <<cpCmd, cpPc, cpNow, invocations>>
    /\ CmdFrame

\* wait_ms, or time passing between two commands
CmdClock ==
    /\ cpNow < MaxCmdTime
    /\ cpNow' = cpNow + 1
    /\ UNCHANGED <<cpCmd, cpPc, turn_pid, angular_pid, cmdCalcs, firstCalc, invocations>>
    /\ CmdFrame

\* the command returns; the local angular_pid goes out of scope
CmdReturn ==
    /\ cpPc = "loop"
    /\ cpPc' = "idle"
    /\ cpCmd' = "none"
    /\ angular_pid' = NoController
    /\ invocations' = invocations + 1
    /\ UNCHANGED <<turn_pid, cpNow, cmdCalcs, firstCalc>>
    /\ CmdFrame

\* turn_to_heading.cpp line 30: static PIDController turn_pid(...)
InitCmdPid ==
    /\ cpCmd = "none"
    /\ cpPc = "idle"
    /\ turn_pid = Constructed(TurnGains)
    /\ angular_pid = NoController
    /\ cpNow = 0
    /\ cmdCalcs = 0
    /\ firstCalc = NoSnapshot
    /\ invocations = 0

NextCmdPid ==
    \/ TurnPidEnter
    \/ DrivePidEnter
    \/ \E e \in CmdErrSamples : CmdCalculate(e)
    \/ CmdClock
    \/ CmdReturn

(***************************************************************************)
(* The odometry background task (localization/odometry.cpp lines 140-164)  *)
(*                                                                         *)
(* odometry_start_task and odometry_stop_task are called from the main     *)
(* context (pre_auton), one call after the other.                          *)
(***************************************************************************)
MaxTasks     == 4
MaxTaskCalls == 8

TaskIds == 1..MaxTasks

Running(t) == tasks[t] \in {"update", "sleep"}

\* line 151: if (odom_task_ptr == nullptr)
CreatesTaskAlways == TRUE

CreatesTask == odom_task_ptr = 0

TaskFrame == UNCHANGED <<motionVars, autonVars, poseVars, pidVars, locVars, drvVars,
                         profVars, cmdPidVars, calVars>>

\* lines 150-155
OdometryStartTask ==
    /\ taskCalls < MaxTaskCalls
    /\ taskCalls' = taskCalls + 1
    /\ lastCall' = [op |-> "start", ptr |-> odom_task_ptr]
    /\ IF CreatesTask
       THEN \E t \in TaskIds :
              /\ tasks[t] = "none"
              /\ \A u \in TaskIds : u < t => tasks[u] # "none"
              /\ tasks' = [tasks EXCEPT ![t] = "update"]
              /\ odom_task_ptr' = t
       ELSE UNCHANGED <<tasks, odom_task_ptr>>
    /\ TaskFrame

\* lines 157-164
OdometryStopTask ==
    /\ taskCalls < MaxTaskCalls
    /\ taskCalls' = taskCalls + 1
    /\ lastCall' = [op |-> "stop", ptr |-> odom_task_ptr]
    /\ IF odom_task_ptr # 0
       THEN /\ tasks' = [tasks EXCEPT ![odom_task_ptr] = "stopped"]
            /\ odom_task_ptr' = 0
       ELSE UNCHANGED <<tasks, odom_task_ptr>>
    /\ TaskFrame

\* lines 142-147: odometry_task_fn, one odometry_update or one sleep of a
\* task that has not been stopped
OdometryTaskFn(t) ==
    /\ Running(t)
    /\ tasks' = [tasks EXCEPT ![t] = IF tasks[t] = "update" THEN "sleep" ELSE "update"]
    /\ UNCHANGED <<odom_task_ptr, taskCalls, lastCall>>
    /\ TaskFrame

InitTask ==
    /\ odom_task_ptr = 0
    /\ tasks = [t \in TaskIds |-> "none"]
    /\ taskCalls = 0
    /\ lastCall = [op |-> "none", ptr |-> 0]

NextTask ==
    \/ OdometryStartTask
    \/ OdometryStopTask
    \/ \E t \in TaskIds : OdometryTaskFn(t)

(***************************************************************************)
(* calibrate_imu (hal/imu.cpp lines 30-46)                                 *)
(***************************************************************************)
CAL_TIMEOUT_MS == 3000
CAL_POLL_MS    == 50

CalFrame == UNCHANGED <<motionVars, autonVars, poseVars, pidVars, locVars, drvVars,
                        profVars, cmdPidVars, taskVars>>

\* lines 31-35: calibrate(), the log line, elapsed = 0.  A connected sensor
\* starts calibrating; one that is not connected may report either.
CalibrateImu(calibrating) ==
    /\ calPc = "idle"
    /\ calPc' = "test"
    /\ calElapsed' = 0
    /\ imuCalibrating' = calibrating
    /\ sawCalibrating' = FALSE
    /\ calLog' = "none"
    /\ CalFrame

\* line 36: while (isCalibrating() && elapsed < 3000)
CalTest ==
    /\ calPc = "test"
    /\ sawCalibrating' = imuCalibrating
    /\ calPc' = IF imuCalibrating /\ calElapsed < CAL_TIMEOUT_MS THEN "sleep" ELSE "report"
    /\ UNCHANGED <<calElapsed, imuCalibrating, calLog>>
    /\ CalFrame

\* lines 37-38: sleep(50); elapsed += 50
CalSleep ==
    /\ calPc = "sleep"
    /\ calElapsed' = calElapsed + CAL_POLL_MS
    /\ calPc' = "test"
    /\ UNCHANGED <<imuCalibrating, sawCalibrating, calLog>>
    /\ CalFrame

\* the sensor ends its calibration, at a moment of its own
ImuFinishes ==
    /\ calPc # "idle"
    /\ imuCalibrating
    /\ imuCalibrating' = FALSE
    /\ UNCHANGED <<calPc, calElapsed, sawCalibrating, calLog>>
    /\ CalFrame

\* lines 41-45: the line logged
CalReport ==
    /\ calPc = "report"
    /\ calLog' = IF calElapsed >= CAL_TIMEOUT_MS THEN "timeout" ELSE "finished"
    /\ calPc' = "done"
    /\ UNCHANGED <<calElapsed, imuCalibrating, sawCalibrating>>
    /\ CalFrame

InitCal ==
    /\ calPc = "idle"
    /\ calElapsed = 0
    /\ imuCalibrating = FALSE
    /\ sawCalibrating = FALSE
    /\ calLog = "none"

NextCal ==
    \/ \E c \in BOOLEAN : CalibrateImu(c)
    \/ CalTest
    \/ CalSleep
    \/ ImuFinishes
    \/ CalReport

InitMotion ==
    /\ now = 0
    /\ cmd = "none"
    /\ mpc = "idle"
    /\ start_time = 0
    /\ settle_start = 0
    /\ settling = FALSE
    /\ lastDriveCmd = "none"
    /\ exitReason = "none"
    /\ exitSample = 0
    /\ tolSince = -1
    /\ exitHeading = 0
    /\ issued = <<>>
    /\ commands = 0
    /\ active = 0
    /\ itersSinceYield = 0
    /\ bgRan = {}

InitExt == InitLoc /\ InitDrv /\ InitProf /\ InitCmdPid /\ InitTask /\ InitCal

Init == InitMotion /\ InitPose /\ InitPid /\ InitExt

NextMotion ==
    \/ StartTurn
    \/ StartDrive
    \/ \E e \in TurnErrSamples \cup DistSamples : Iterate(e)
    \/ Wait
    \/ StopDriveMotors

OdomSteps ==
    \/ OdomReadWheels \/ OdomWheelDeltas \/ OdomReadImu \/ OdomImuDelta
    \/ OdomLockWriteXY \/ OdomWriteThetaUnlock

ReaderSteps ==
    \/ GetPoseLockCopyXY("reader") \/ GetPoseCopyThetaUnlock("reader")
    \/ ReaderAgain

MainSteps ==
    \/ \E t \in SetPoseTargets : SetPoseLockWriteXY(t)
    \/ SetPoseBaselinesUnlock \/ SetPoseResetImu \/ SetPoseResetWheels

VisionSteps ==
    \/ \E e \in Estimates : VisionCall(e)
    \/ GetPoseLockCopyXY("vision") \/ GetPoseCopyThetaUnlock("vision")
    \/ VisionBlend \/ NoResetLockWriteXY \/ NoResetWriteThetaUnlock
    \/ VisionReturn

MoveSteps == \E m \in Motions : Move(m)

\* The four contexts that access Pose, on a robot that stands still.
NextAccess == OdomSteps \/ ReaderSteps \/ MainSteps \/ VisionSteps

\* The odometry task alone on a moving robot, after the start-up set_pose.
NextOdom == MoveSteps \/ OdomSteps

\* The odometry task and a set_pose call on a moving robot.
NextSetPose == MoveSteps \/ OdomSteps \/ MainSteps

\* The odometry task and the vision correction on a moving robot.
NextVision == MoveSteps \/ OdomSteps \/ VisionSteps

SpecMotion == Init /\ [][NextMotion]_vars

\* The command's own steps are always taken eventually (it is a running task
\* and every wait_ms returns).
SpecMotionFair == SpecMotion /\ WF_vars(NextMotion)

\* One motion command, the background tasks running whenever it sleeps.
NextSched ==
    \/ NextMotion
    \/ \E t \in BackgroundTasks : BackgroundRun(t)

\* autonomous(): one motion command after the other.
NextAuton ==
    \/ NextMotion
    \/ NextCommand

SpecSched == Init /\ [][NextSched]_vars
SpecAuton == Init /\ [][NextAuton]_vars

SpecPid == Init /\ [][NextPid]_vars

SpecLoc == Init /\ [][NextLoc]_vars

SpecDrv == Init /\ [][NextDrv]_vars

SpecProf == Init /\ [][NextProf]_vars

SpecCmdPid == Init /\ [][NextCmdPid]_vars

SpecTask == Init /\ [][NextTask]_vars

SpecCal == Init /\ [][NextCal]_vars

SpecOdom    == Init /\ [][NextOdom]_vars
SpecAccess  == Init /\ [][NextAccess]_vars
SpecSetPose == Init /\ [][NextSetPose]_vars
SpecVision  == Init /\ [][NextVision]_vars

(***************************************************************************)
(* C1: a motion command always returns; as long as it is inside the loop   *)
(* body its elapsed time has not exceeded the command's timeout, i.e. the  *)
(* loop is left at the first tick whose elapsed time exceeds it.           *)
(***************************************************************************)
C1_AlwaysReturns ==
    /\ [](mpc = "wait" => now - start_time <= Timeout(cmd))
    /\ [](mpc = "loop" => <>(mpc = "done"))

C1_Witness ==
    /\ mpc = "done"
    /\ exitReason = "timeout"
    /\ settle_start > start_time
    /\ tolSince = -1
    /\ now - start_time > Timeout(cmd)
    /\ now - start_time <= Timeout(cmd) + LOOP_INTERVAL_MS

(***************************************************************************)
(* C2: when a motion command has returned, the last drive command issued   *)
(* is stop_drive_motors().                                                 *)
(***************************************************************************)
C2_StoppedOnReturn ==
    mpc = "done" => lastDriveCmd = "stop"

C2_Witness ==
    /\ mpc = "done"
    /\ exitReason = "settled"
    /\ lastDriveCmd = "stop"

(***************************************************************************)
(* C3: a settled exit happens only on a tick whose sample is inside        *)
(* tolerance and ends an unbroken run of in-tolerance samples that began   *)
(* at least the settle dwell time earlier.                                 *)
(***************************************************************************)
C3_SettledOnlyAfterDwell ==
    exitReason = "settled" =>
        /\ WithinTolerance(cmd, exitSample)
        /\ tolSince # -1
        /\ now - tolSince >= SettleTime(cmd)

C3_Witness ==
    /\ exitReason = "settled"
    /\ tolSince > start_time
    /\ now - tolSince >= SettleTime(cmd)

(***************************************************************************)
(* C4: every get_pose returns x, y and theta written by one and the same   *)
(* whole write, and no access to Pose overlaps a write of Pose.            *)
(***************************************************************************)
InPoseAccess(p) == pc[p] \in {"o194", "g200", "s207", "n220"}

C4_AtomicSnapshots ==
    /\ \A p, q \in Procs : (p # q /\ InPoseAccess(p)) => ~InPoseAccess(q)
    /\ \A p \in Readers : pc[p] # "g200" => copy[p].sxy = copy[p].sth
    /\ (\A p \in Procs : ~InPoseAccess(p)) => poseStamp.xy = poseStamp.th

C4_Witness ==
    /\ pc["reader"] = "r_ret"
    /\ copy["reader"].x = 30 /\ copy["reader"].y = 30
    /\ copy["reader"].sxy = copy["reader"].sth
    /\ pc["vision"] = "n220"
    /\ pc["odom"] = "o188"

(***************************************************************************)
(* C5: once set_pose(p) has returned and the sensors have not moved since  *)
(* it was called, get_pose returns p.                                      *)
(***************************************************************************)
C5_PoseStaysAtReset ==
    (setPoseCalls > 0 /\ pc["main"] = "m_idle" /\ ~movedSinceReset
        /\ pose_mutex = "free")
    => current_pose = new_pose

(***************************************************************************)
(* C6: set_pose_no_reset leaves the three baselines alone, so every delta  *)
(* of a tick is the change of the sensor since the previous tick.          *)
(***************************************************************************)
C6_NoResetKeepsBaselines ==
    /\ [][(pc["vision"] \in {"n219", "n220"} /\ pc'["vision"] # pc["vision"])
            => UNCHANGED <<baselineVars, sensorVars>>]_vars
    /\ [](pc["odom"] \in {"o177", "o178", "o188", "o194"} =>
            /\ odo.d_forward = lastRead.f - prevRead.f
            /\ odo.d_lateral = lastRead.l - prevRead.l)
    /\ [](pc["odom"] \in {"o188", "o194"} =>
            odo.dtheta = lastRead.r - prevRead.r)

C6_Witness ==
    /\ pc["vision"] = "v_applied"
    /\ current_pose.x = corrected.x
    /\ corrected.x # copy["vision"].x
    /\ prev_forward_dist = 10
    /\ pc["odom"] = "o188"
    /\ odo.d_forward = 10

(***************************************************************************)
(* C7: a vision correction never changes theta: after every completed tick *)
(* theta is the start heading plus the IMU rotation seen by the ticks.     *)
(***************************************************************************)
C7_ThetaFollowsImu ==
    (pc["odom"] = "o169" /\ pose_mutex = "free" /\ setPoseCalls = 0)
    => current_pose.theta = prev_imu_rotation

(***************************************************************************)
(* C8: a Pose write of vision_correct_odometry moves (x, y) by less than   *)
(* VISION_MAX_CORRECTION_M from the value stored just before the write.    *)
(***************************************************************************)
C8_BoundedJump ==
    [][(pc["vision"] = "n219" /\ pc'["vision"] = "n220")
        => Dist2(current_pose'.x, current_pose'.y, current_pose.x, current_pose.y)
             < VISION_MAX_CORRECTION_M * VISION_MAX_CORRECTION_M]_vars

(***************************************************************************)
(* C9: a usable estimate is rejected exactly when the blended displacement *)
(* exceeds VISION_MAX_CORRECTION_M; a displacement equal to it is applied. *)
(***************************************************************************)
C9_RejectsIffExceeds ==
    LET d2 == Dist2(corrected.x, corrected.y, copy["vision"].x, copy["vision"].y)
        m2 == VISION_MAX_CORRECTION_M * VISION_MAX_CORRECTION_M
    IN  /\ pc["vision"] = "v_rejected" => d2 > m2
        /\ pc["vision"] \in {"n219", "n220", "v_applied"} => d2 <= m2

(***************************************************************************)
(* C10: with an invalid estimate, or one whose confidence is below         *)
(* VISION_MIN_CONFIDENCE, vision_correct_odometry returns at once: no step *)
(* of the call changes Pose or a baseline.                                 *)
(***************************************************************************)
C10_UnusableIsNoOp ==
    /\ []((pc["vision"] # "v_idle"
            /\ (~estimate.valid \/ estimate.confidence < VISION_MIN_CONFIDENCE))
          => pc["vision"] = "v_noop")
    /\ [][(pc'["vision"] # pc["vision"]
            /\ (pc["vision"] = "v_noop" \/ pc'["vision"] = "v_noop"))
          => UNCHANGED <<current_pose, baselineVars>>]_vars

C10_Witness ==
    /\ pc["vision"] = "v_noop"
    /\ estimate.valid
    /\ estimate.confidence < VISION_MIN_CONFIDENCE
    /\ pc["odom"] = "o194"

C12_OneCommandAtATime ==
    /\ [](active <= 1)
    /\ [][commands' = commands + 1 =>
            (active = 0 /\ lastDriveCmd \in {"none", "stop"})]_vars

C12_Witness ==
    /\ commands = 2
    /\ active = 1
    /\ mpc = "wait"
    /\ lastDriveCmd = "set"

(***************************************************************************)
(* C13: with an integral limit L > 0, the integral stored by calculate()   *)
(* lies in [-L, L], and so Ki * integral lies within |Ki| * L.             *)
(***************************************************************************)
C13_IntegralClamped ==
    [][(pidCalls' = pidCalls + 1 /\ pid.integral_limit > 0) =>
          /\ Abs(pid'.integral) <= pid.integral_limit
          /\ Abs(pid.ki * pid'.integral) <= Abs(pid.ki) * pid.integral_limit]_vars

C13_Witness ==
    /\ pidCalls = 2
    /\ pid.integral_limit > 0
    /\ pid.ki # 0
    /\ pid.prev_error = -100
    /\ pid.integral = -pid.integral_limit

(***************************************************************************)
(* C14: with an output limit M > 0, calculate() returns a value in         *)
(* [-M, M], exactly M or -M when p + i + d lies outside; with the limit 0  *)
(* it returns p + i + d.                                                   *)
(***************************************************************************)
C14_OutputClamped ==
    [][pidCalls' = pidCalls + 1 =>
          LET M == pid.output_limit IN
          /\ M > 0 =>
                /\ -M <= pidOut' /\ pidOut' <= M
                /\ pidRaw' > M => pidOut' = M
                /\ pidRaw' < -M => pidOut' = -M
                /\ (-M <= pidRaw' /\ pidRaw' <= M) => pidOut' = pidRaw'
          /\ M = 0 => pidOut' = pidRaw']_vars

C14_Witness ==
    /\ pidCalls > 0
    /\ pid.output_limit > 0
    /\ pidRaw < -pid.output_limit
    /\ pidOut = -pid.output_limit

(***************************************************************************)
(* C15: after reset(), a used controller returns from its next calculate   *)
(* what a freshly constructed controller with the same gains and limits    *)
(* returns from its first calculate, whether or not the fresh one was      *)
(* reset too.                                                              *)
(***************************************************************************)
FreshLike(c) ==
    [Constructed([kp |-> c.kp, ki |-> c.ki, kd |-> c.kd]) EXCEPT
        !.integral_limit = c.integral_limit,
        !.d_filter_alpha = c.d_filter_alpha,
        !.output_limit   = c.output_limit]

C15_ResetAsFresh ==
    (pidFresh /\ pidCalls > 0) =>
        \A sp \in PidSetpoints, pv \in PidMeasured :
            /\ Calculate(pid, pidNow, sp, pv).out
                 = Calculate(Reset(FreshLike(pid), pid.last_time), pidNow, sp, pv).out
            /\ Calculate(pid, pidNow, sp, pv).out
                 = Calculate(FreshLike(pid), pidNow, sp, pv).out

(***************************************************************************)
(* C16: the dt used by calculate() is always positive; it is 0.01 s        *)
(* whenever now minus the last sample time is zero or negative.            *)
(***************************************************************************)
C16_DtPositive ==
    pidCalls > 0 =>
        /\ pidDt > 0
        /\ pidElapsed <= 0 => pidDt = DtFloor
        /\ pidElapsed > 0 => pidDt = pidElapsed

C16_Witness ==
    /\ pidCalls = 2
    /\ pidElapsed = 0
    /\ pidDt = DtFloor
    /\ pid.last_time > 0
    /\ ~pidFresh

(***************************************************************************)
(* C17: with only odometry ticks after the start-up set_pose, theta after  *)
(* a tick is the start theta plus the IMU's cumulative rotation read by    *)
(* that tick; wheel readings do not enter, and theta is not wrapped.       *)
(***************************************************************************)
C17_ThetaIsImuRotation ==
    pc["odom"] = "o169" => current_pose.theta = NoPose.theta + lastRead.r

C17_Witness ==
    /\ pc["odom"] = "o169"
    /\ lastRead.r = 4
    /\ current_pose.theta = 4
    /\ lastRead.f # 0
    /\ lastRead.l # 0

(***************************************************************************)
(* C18: while the IMU rotation does not change, the pose after a tick      *)
(* depends only on the total change of the wheel readings, not on the      *)
(* number of ticks it was split into.                                      *)
(***************************************************************************)
C18_TicksAreAdditive ==
    (pc["odom"] = "o169" /\ imuSensor = 0) =>
        /\ current_pose.x = NoPose.x + lastRead.f
        /\ current_pose.y = NoPose.y + lastRead.l
        /\ current_pose.theta = NoPose.theta

C18_Witness ==
    /\ pc["odom"] = "o169"
    /\ imuSensor = 0
    /\ prevRead.f = 10
    /\ lastRead.f = 20
    /\ current_pose.x = 20

(***************************************************************************)
(* C19: a tick whose wheel deltas are exactly FORWARD_WHEEL_OFFSET*dtheta  *)
(* and LATERAL_WHEEL_OFFSET*dtheta leaves x and y unchanged and adds       *)
(* dtheta to theta.                                                        *)
(***************************************************************************)
PureRotationTick ==
    /\ odo.d_forward = FORWARD_WHEEL_OFFSET * odo.dtheta
    /\ odo.d_lateral = LATERAL_WHEEL_OFFSET * odo.dtheta

C19_PureRotationKeepsXY ==
    /\ [][(pc["odom"] = "o188" /\ pc'["odom"] = "o194" /\ PureRotationTick) =>
            (current_pose'.x = current_pose.x /\ current_pose'.y = current_pose.y)]_vars
    /\ [][(pc["odom"] = "o194" /\ pc'["odom"] = "o169" /\ PureRotationTick) =>
            (/\ current_pose'.theta = current_pose.theta + odo.dtheta
             /\ current_pose'.x = current_pose.x
             /\ current_pose'.y = current_pose.y)]_vars

C19_Witness ==
    /\ pc["odom"] = "o194"
    /\ odo.dtheta = 2
    /\ odo.d_forward = FORWARD_WHEEL_OFFSET * odo.dtheta
    /\ odo.d_lateral = LATERAL_WHEEL_OFFSET * odo.dtheta
    /\ current_pose.x = 10
    /\ current_pose.y = 0

(***************************************************************************)
(* C20: a tick that read the same three sensor values as the tick before   *)
(* leaves Pose unchanged, and the odometry task can always go on.          *)
(***************************************************************************)
C20_StalledSensorsKeepPose ==
    /\ [][(pc["odom"] \in {"o188", "o194"} /\ pc'["odom"] # pc["odom"]
            /\ lastRead = prevRead) => current_pose' = current_pose]_vars
    /\ [](ENABLED OdomSteps)

C20_Witness ==
    /\ pc["odom"] = "o194"
    /\ lastRead = prevRead
    /\ lastRead.f = 16
    /\ lastRead.r = 2
    /\ moves = 2
    /\ current_pose.theta = 2

(***************************************************************************)
(* C21: vision_localizer_update returns the candidate with the highest     *)
(* confidence among the frame's detections that are valid, have a known    *)
(* field-tag id, meet the minimum pixel size and have confidence > 0; it   *)
(* returns an invalid estimate exactly when the frame has no such          *)
(* detection.  Unknown ids, undersized tags and out-of-range tags never    *)
(* produce or influence the result.                                        *)
(***************************************************************************)
Qualifies(tag) ==
    /\ tag.valid
    /\ KnownTag(tag.id)
    /\ PixelSize(tag) >= MIN_TAG_PIXELS
    /\ ComputeConfidence(EstimateDistance(PixelSize(tag)), PixelSize(tag)) > 0

C21_BestQualifyingCandidate ==
    locPc = "ret" =>
        LET Q == { i \in 1..Len(frame) : Qualifies(frame[i]) }
        IN  /\ best_estimate.valid <=> Q # {}
            /\ Q = {} => best_estimate = InvalidEstimate
            /\ Q # {} =>
                 /\ \E i \in Q : best_estimate = CandidateEstimate(frame[i], locTheta)
                 /\ \A j \in Q : CandidateEstimate(frame[j], locTheta).confidence
                                    <= best_estimate.confidence

\* a frame of three: an in-range tag, a better one, then an unknown id
C21_Witness ==
    /\ locPc = "ret"
    /\ Len(frame) = 3
    /\ Qualifies(frame[1]) /\ Qualifies(frame[2])
    /\ frame[3].valid /\ ~KnownTag(frame[3].id)
    /\ CandidateEstimate(frame[2], locTheta).confidence
         > CandidateEstimate(frame[1], locTheta).confidence
    /\ best_estimate = CandidateEstimate(frame[2], locTheta)

(***************************************************************************)
(* C22: in drive_to_pose the commanded linear speed changes by at most     *)
(* MAX_ACCELERATION * (LOOP_INTERVAL_MS / 1000) between consecutive loop   *)
(* ticks, starting from 0 before the first tick, whatever distance and     *)
(* heading error the pose gives on each tick.                              *)
(***************************************************************************)
C22_SpeedSlewLimited ==
    /\ [](drvPc = "run" /\ drvTicks = 0 => prev_cmd_v = 0)
    /\ [][ drvTicks' = drvTicks + 1 =>
              /\ cmdBefore' = prev_cmd_v
              /\ Abs(prev_cmd_v' - prev_cmd_v) <= MaxDv ]_vars

\* the target fell from full speed to 0 (heading error past 90 degrees) and
\* the command follows by one step only
C22_Witness ==
    /\ drvPc = "run"
    /\ drvTicks >= 2
    /\ cmdBefore = 2 * MaxDv
    /\ rawTarget = 0
    /\ Abs(headingErr) >= 90
    /\ prev_cmd_v = MaxDv

(***************************************************************************)
(* C23: every voltage set_drive_motors passes on to a motor is within      *)
(* [-12, +12] V, whatever left / right values it is called with.           *)
(***************************************************************************)
C23_VoltageBounded ==
    /\ motorVolts.left  >= -MaxVoltage /\ motorVolts.left  <= MaxVoltage
    /\ motorVolts.right >= -MaxVoltage /\ motorVolts.right <= MaxVoltage
    /\ Abs(motorArgs.left)  <= MaxVoltage => motorVolts.left  = motorArgs.left
    /\ Abs(motorArgs.right) <= MaxVoltage => motorVolts.right = motorArgs.right

\* called with -15 V and +12.001 V
C23_Witness ==
    /\ motorArgs.left < -MaxVoltage
    /\ motorArgs.right > MaxVoltage
    /\ motorVolts = [left |-> -MaxVoltage, right |-> MaxVoltage]

(***************************************************************************)
(* C30: in drive_to_pose, on every tick where the magnitude of the         *)
(* normalised heading error is 90 degrees or more, the linear speed target *)
(* before slew limiting is 0, so the commanded linear speed of that tick   *)
(* can only move towards 0.                                                *)
(***************************************************************************)
C30_NoAdvanceWhenFacingAway ==
    (drvPc = "run" /\ drvTicks > 0 /\ Abs(headingErr) >= 90) =>
        /\ rawTarget = 0
        /\ Abs(prev_cmd_v) <= Abs(cmdBefore)
        /\ prev_cmd_v * cmdBefore >= 0

\* reversing at speed, then facing away: the command rises towards 0
C30_Witness ==
    /\ drvPc = "run"
    /\ reverse
    /\ Abs(headingErr) >= 90
    /\ cmdBefore = -(2 * MaxDv)
    /\ prev_cmd_v = -MaxDv

(***************************************************************************)
(* C24: for every pair (time_elapsed, distance_to_go) it is called with,   *)
(* get_target_velocity returns a velocity v with 0 <= v <= max_velocity.   *)
(***************************************************************************)
C24_VelocityInRange ==
    profCalls > 0 => /\ 0 <= profOut
                     /\ profOut <= profile.max_velocity

\* far from the target after a long time: the cap is what limits
C24_Witness ==
    /\ profCalls > 0
    /\ profArgs.time_elapsed = 4000
    /\ profArgs.distance_to_go = 5000
    /\ profOut = profile.max_velocity

(***************************************************************************)
(* C25: with Ki = Kd = 0 and no output limit, calculate(sp, pv) returns    *)
(* exactly Kp * (sp - pv), regardless of the elapsed time and of earlier   *)
(* calls; in particular zero error gives zero output.                      *)
(***************************************************************************)
C25_ProportionalOnly ==
    [][ \A sp \in PidSetpoints, pv \in PidMeasured :
          (PidCalculate(sp, pv) /\ pid.ki = 0 /\ pid.kd = 0 /\ pid.output_limit = 0)
             => /\ pidOut' = pid.kp * (sp - pv) * DerivScale
                /\ sp = pv => pidOut' = 0 ]_vars

\* a second call, some time after the first, whose integral has built up
C25_Witness ==
    /\ pidCalls = 2
    /\ ~pidFresh
    /\ pid.ki = 0 /\ pid.kd = 0 /\ pid.output_limit = 0
    /\ pidElapsed > DtFloor
    /\ pid.integral # 0
    /\ pid.prev_error = 10
    /\ pidOut = pid.kp * 10 * DerivScale

(***************************************************************************)
(* C26: at the first PID calculate() of every turn_to_heading or           *)
(* drive_to_pose invocation, including a later invocation that reuses the  *)
(* module-level turn PID, the integral, previous error and filtered        *)
(* derivative are 0 and the integral limit, derivative filter and 12 V     *)
(* output clamp are already configured.                                    *)
(***************************************************************************)
C26_PidCleanAtFirstCalculate ==
    firstCalc.taken =>
        /\ firstCalc.ctl.built
        /\ firstCalc.ctl.integral = 0
        /\ firstCalc.ctl.prev_error = 0
        /\ firstCalc.ctl.filtered_deriv = 0
        /\ firstCalc.ctl.integral_limit = TurnIntegralLimit
        /\ firstCalc.ctl.d_filter_alpha = TurnDFilterTenths
        /\ firstCalc.ctl.output_limit = TurnOutputLimit

\* the second turn_to_heading has made its first calculate on the reused
\* turn_pid, which the first invocation had left with state
C26_Witness ==
    /\ invocations = 1
    /\ cpCmd = "turn"
    /\ cmdCalcs = 1
    /\ firstCalc.taken
    /\ firstCalc.ctl.last_time > 0
    /\ turn_pid.integral # 0

(***************************************************************************)
(* C27: the sensor baselines are read and written only from the odometry   *)
(* estimator's own execution context: every step that changes a baseline   *)
(* is a step of the odometry task, so no other context writes a baseline   *)
(* between the task's read of it and its write-back of the new value.      *)
(***************************************************************************)
C27_BaselinesOwnedByOdometry ==
    [][ baselineVars' # baselineVars => pc'["odom"] # pc["odom"] ]_vars

(***************************************************************************)
(* C28: no odometry displacement is lost to a vision correction: the       *)
(* (x, y) that vision_correct_odometry writes is the blend of the vision   *)
(* estimate with the Pose stored immediately before the write, so a tick   *)
(* integrated between its get_pose and its set_pose_no_reset is still      *)
(* reflected in Pose afterwards.                                           *)
(***************************************************************************)
C28_BlendsStoredPose ==
    [][ (pc["vision"] = "n219" /\ pc'["vision"] = "n220") =>
            /\ current_pose'.x = Blend(current_pose, estimate).x
            /\ current_pose'.y = Blend(current_pose, estimate).y ]_vars

(***************************************************************************)
(* C29: the heading error used by turn_to_heading and drive_to_pose is     *)
(* congruent to (target - current) modulo a full turn and lies in          *)
(* [-pi, pi] for any unbounded current heading, so the commanded rotation  *)
(* is always towards the shorter way round.                                *)
(***************************************************************************)
C29_ShorterWayRound ==
    (drvPc = "run" /\ drvTicks > 0) =>
        /\ headingErr >= -180 /\ headingErr <= 180
        /\ (headingErr - headingRaw) % 360 = 0
        /\ \A k \in -MaxTurns..MaxTurns : Abs(headingErr) <= Abs(headingRaw + 360 * k)

\* the heading has wound up by more than a turn: 0 - 420 degrees is -60
C29_Witness ==
    /\ drvPc = "run"
    /\ drvTicks > 0
    /\ headingRaw < -360
    /\ headingErr = -60

(***************************************************************************)
(* C31: if every sampled distance to the target is below DRIVE_SETTLE_M    *)
(* from the first tick on (a distance of exactly 0 included),              *)
(* drive_to_pose leaves its loop by the settled break at the first tick    *)
(* at least DRIVE_SETTLE_TIME_MS after the first one and at no other       *)
(* tick, whatever the heading error of that tick is.                       *)
(***************************************************************************)
C31_SettlesOnPositionAlone ==
    [][ (cmd = "drive" /\ mpc = "loop" /\ mpc' # "loop" /\ tolSince' = start_time) =>
            IF now - start_time >= DRIVE_SETTLE_TIME_MS
            THEN mpc' = "stop" /\ exitReason' = "settled"
            ELSE mpc' = "wait" /\ exitReason' = "none" ]_vars

\* started on the target (distance 0 on the exit tick) and settled while
\* nearly facing away from it
C31_Witness ==
    /\ cmd = "drive"
    /\ mpc = "stop"
    /\ exitReason = "settled"
    /\ tolSince = start_time
    /\ now - start_time >= DRIVE_SETTLE_TIME_MS
    /\ exitSample = 0
    /\ exitHeading = 3000

(***************************************************************************)
(* C32: every loop iteration of turn_to_heading and drive_to_pose that     *)
(* takes no break issues exactly one set_drive_motors call, computed from  *)
(* the pose sampled on that same iteration (the sample its settle          *)
(* detection used), also while the error is inside tolerance and the       *)
(* dwell timer is running.                                                 *)
(***************************************************************************)
C32_CommandsEveryIteration ==
    [][ (mpc = "loop" /\ mpc' = "wait") =>
            /\ Len(issued') = 1
            /\ lastDriveCmd' = "set"
            /\ issued'[1] \in Samples(cmd)
            /\ settling' = InsideTolerance(cmd, issued'[1])
            /\ tolSince' = TolRun(cmd, issued'[1]) ]_vars

\* a turn command, the dwell timer running since an earlier tick, has just
\* handed the motors a correction for an error inside the tolerance
C32_Witness ==
    /\ cmd = "turn"
    /\ mpc = "wait"
    /\ settling
    /\ now > settle_start
    /\ issued = <<TURN_SETTLE_MRAD - 1>>
    /\ lastDriveCmd = "set"

(***************************************************************************)
(* C33: in drive_to_pose the commanded linear speed v satisfies            *)
(* |v| <= MAX_VELOCITY on every tick, v >= 0 on every tick of a forward    *)
(* command and v <= 0 on every tick of a reverse command.                  *)
(***************************************************************************)
C33_SpeedCappedAndSigned ==
    (drvPc = "run") =>
        /\ Abs(prev_cmd_v) <= MAX_VELOCITY
        /\ (~reverse => prev_cmd_v >= 0)
        /\ (reverse => prev_cmd_v <= 0)

\* a reverse command has ramped up to full speed and stays there: the tick
\* found -MAX_VELOCITY, its target was -MAX_VELOCITY
C33_Witness ==
    /\ drvPc = "run"
    /\ reverse
    /\ drvTicks > MAX_VELOCITY \div MaxDv
    /\ cmdBefore = -MAX_VELOCITY
    /\ rawTarget = -MAX_VELOCITY
    /\ prev_cmd_v = -MAX_VELOCITY

(***************************************************************************)
(* C34: with a derivative filter coefficient a in (0, 1) configured, the   *)
(* filtered derivative after each calculate() is a times the previous      *)
(* filtered derivative plus (1 - a) times the raw derivative               *)
(* (error - previous error) / dt, starting from 0 after reset(); with      *)
(* a = 0 the raw derivative is used unfiltered.  (In the integer model     *)
(* the weighted sum is rounded down to a whole unit.)                      *)
(***************************************************************************)
C34_DerivativeIsEma ==
    /\ [](pidFresh => pid.filtered_deriv = 0)
    /\ [][ pidCalls' = pidCalls + 1 =>
            LET a   == pid.d_filter_alpha
                raw == ((pid'.prev_error - pid.prev_error) * DerivScale) \div pidDt'
                sum == a * pid.filtered_deriv + (FilterScale - a) * raw
            IN  /\ (a = 0 => pid'.filtered_deriv = raw)
                /\ (0 < a /\ a < FilterScale =>
                       /\ FilterScale * pid'.filtered_deriv <= sum
                       /\ sum < FilterScale * pid'.filtered_deriv + FilterScale) ]_vars

\* the second calculate() with a = 0.7 found a filtered derivative other
\* than 0 and blended a different raw derivative into it
C34_Witness ==
    /\ pidCalls = 2
    /\ pid.d_filter_alpha = 7
    /\ pidDeriv.before # 0
    /\ pidDeriv.raw # pidDeriv.before
    /\ pid.filtered_deriv = (7 * pidDeriv.before + 3 * pidDeriv.raw) \div FilterScale
    /\ pid.filtered_deriv # pidDeriv.raw

(***************************************************************************)
(* C35: every VisionEstimate returned by vision_localizer_update has a     *)
(* confidence in [0, 1], and a valid estimate has a confidence above 0.    *)
(***************************************************************************)
C35_ConfidenceInUnitRange ==
    locPc = "ret" =>
        /\ best_estimate.confidence >= 0
        /\ best_estimate.confidence <= ConfidenceOne
        /\ best_estimate.valid => best_estimate.confidence > 0

\* the frame holds a tag at exactly the maximum range (confidence 0, not
\* kept) and a close tag wider than the full-size threshold, whose size
\* factor saturated: that one is returned
C35_Witness ==
    /\ locPc = "ret"
    /\ Len(frame) = 2
    /\ EstimateDistance(PixelSize(frame[1])) = MAX_VISION_RANGE
    /\ PixelSize(frame[2]) > FullSizePixels
    /\ best_estimate.valid
    /\ best_estimate.confidence
         = (MAX_VISION_RANGE - EstimateDistance(PixelSize(frame[2]))) * FullSizePixels

(***************************************************************************)
(* C36: PIDController::reset() changes only the integral, the previous     *)
(* error, the filtered derivative and the time stamp (gains and the three  *)
(* configured limits stay), and each set_* setter changes only its own     *)
(* limit and no runtime state; so reset() and the setters commute, and     *)
(* the order in which they are called before the first calculate() does    *)
(* not matter.                                                             *)
(***************************************************************************)
Configuration == {"built", "kp", "ki", "kd", "integral_limit", "d_filter_alpha",
                  "output_limit"}

SameOutside(c, d, fields) == \A f \in (DOMAIN c) \ fields : c[f] = d[f]

C36_ResetAndSettersIndependent ==
    /\ [][ /\ PidReset => \A f \in Configuration : pid'[f] = pid[f]
           /\ \A l \in IntegralLimits :
                 PidSetIntegralLimit(l) => SameOutside(pid', pid, {"integral_limit"})
           /\ \A a \in DFilterTenths :
                 PidSetDFilter(a) => SameOutside(pid', pid, {"d_filter_alpha"})
           /\ \A l \in OutputLimits :
                 PidSetOutputLimit(l) => SameOutside(pid', pid, {"output_limit"}) ]_vars
    /\ [](pid.built =>
            \A il \in IntegralLimits, a \in DFilterTenths, ol \in OutputLimits :
              /\ Reset(SetIntegralLimit(pid, il), pidNow)
                    = SetIntegralLimit(Reset(pid, pidNow), il)
              /\ Reset(SetDFilter(pid, a), pidNow) = SetDFilter(Reset(pid, pidNow), a)
              /\ Reset(SetOutputLimit(pid, ol), pidNow)
                    = SetOutputLimit(Reset(pid, pidNow), ol)
              /\ SetDFilter(SetIntegralLimit(pid, il), a)
                    = SetIntegralLimit(SetDFilter(pid, a), il)
              /\ SetOutputLimit(SetIntegralLimit(pid, il), ol)
                    = SetIntegralLimit(SetOutputLimit(pid, ol), il)
              /\ SetOutputLimit(SetDFilter(pid, a), ol)
                    = SetDFilter(SetOutputLimit(pid, ol), a)
              \* turn_to_heading's order against drive_to_pose's
              /\ SetOutputLimit(SetDFilter(SetIntegralLimit(Reset(pid, pidNow), il), a), ol)
                    = Reset(SetOutputLimit(SetDFilter(SetIntegralLimit(pid, il), a), ol),
                            pidNow))

\* reset() has just acted on a controller that was configured with all
\* three limits and had run: the limits and gains are still there, the
\* runtime state is cleared
C36_Witness ==
    /\ pidFresh
    /\ pidCalls > 0
    /\ pidDeriv.raw # 0
    /\ pid.kp > 0 /\ pid.ki > 0 /\ pid.kd > 0
    /\ pid.integral_limit > 0 /\ pid.d_filter_alpha > 0 /\ pid.output_limit > 0
    /\ pid.integral = 0 /\ pid.prev_error = 0 /\ pid.filtered_deriv = 0
    /\ pid.last_time = pidNow /\ pidNow > 0

(***************************************************************************)
(* C37: at most one odometry background task exists at any time:           *)
(* odometry_start_task while one is running creates nothing,               *)
(* odometry_stop_task with none running does nothing, and a stop followed  *)
(* by a start leaves exactly one running task.                             *)
(***************************************************************************)
RunningTasks == { t \in TaskIds : Running(t) }

C37_AtMostOneOdometryTask ==
    /\ [](/\ Cardinality(RunningTasks) <= 1
          /\ RunningTasks = (IF odom_task_ptr = 0 THEN {} ELSE {odom_task_ptr}))
    /\ [][ /\ (OdometryStartTask /\ RunningTasks # {}) =>
                  /\ \A t \in TaskIds : (tasks[t] = "none") = (tasks'[t] = "none")
                  /\ UNCHANGED <<tasks, odom_task_ptr>>
           /\ (OdometryStopTask /\ RunningTasks = {}) => UNCHANGED <<tasks, odom_task_ptr>>
           /\ (OdometryStartTask /\ lastCall.op = "stop") =>
                  Cardinality({ t \in TaskIds : Running(t)' }) = 1 ]_vars

\* a start that found a task running, then a stop, then a start: the first
\* task is stopped and the second is the one running
C37_Witness ==
    /\ taskCalls = 4
    /\ lastCall = [op |-> "start", ptr |-> 0]
    /\ tasks[1] = "stopped"
    /\ Running(2)
    /\ tasks[3] = "none"
    /\ odom_task_ptr = 2

(***************************************************************************)
(* C38: calibrate_imu always returns after at most 3000 ms of polling,     *)
(* and it logs 'IMU calibration finished' if and only if the sensor had    *)
(* stopped calibrating when polling ended (TIMEOUT is logged only when     *)
(* the sensor is still calibrating at that moment).                        *)
(***************************************************************************)
C38_LogTellsSensorState ==
    calPc = "done" =>
        /\ calElapsed <= CAL_TIMEOUT_MS
        /\ (calLog = "finished") = ~sawCalibrating
        /\ (calLog = "timeout") = sawCalibrating

====
